---------------------------- MODULE Spec2Model ----------------------------
(***************************************************************************)
(* PaprikaPlay: the Hold'em module, the betting engine it delegates to,     *)
(* the hand evaluator and the socket mediator of backend/index.ts.          *)
(*                                                                          *)
(* Conventions of the translation                                           *)
(*  - a TypeScript Record<PlayerId, T> is a function whose DOMAIN is the    *)
(*    set of keys; `x[id] ?? d` is Get(x, id, d);                           *)
(*  - `null` is the record Null, a null player id is NoPlayer;              *)
(*  - arrays are sequences; seat indexes stay 0-based as in the source, so  *)
(*    players[seat] of the source is players[seat + 1] here;                *)
(*  - an action log is append-only text that no code path reads back: it    *)
(*    is kept as the number of its entries;                                 *)
(*  - a result value { ok, state | error } is the record                    *)
(*    [ok, threw, error, state]; when ok is FALSE, `state` is the value the *)
(*    caller's state object has after the call.                             *)
(***************************************************************************)
EXTENDS Integers, Sequences, FiniteSets, TLC

\* ------------------------------------------------------------------ bounds

\* Seats at a table of the Hold'em specification (2 .. MaxSeats).
MaxSeats == 3
\* options.initialStack of the Hold'em specification.
InitialStack == 5
\* Hands played in one behaviour.
MaxHands == 2
MaxHandsMultiway == 1
\* Largest stack of a seat handed to createBettingState in SpecBetting.
MaxStack == 6

\* options.smallBlind / options.bigBlind as the tables of the model set them.
SmallBlind == 1
BigBlind == 2

\* ----------------------------------------------------------------- helpers

Null == [null |-> TRUE]
NoPlayer == "null"

Min(a, b) == IF a < b THEN a ELSE b
Max(a, b) == IF a > b THEN a ELSE b

Get(f, k, d) == IF k \in DOMAIN f THEN f[k] ELSE d

Range(s) == {s[i] : i \in DOMAIN s}

RECURSIVE SumSeq(_)
SumSeq(s) == IF s = <<>> THEN 0 ELSE Head(s) + SumSeq(Tail(s))

RECURSIVE SumFun(_, _)
SumFun(f, S) ==
  IF S = {} THEN 0
  ELSE LET k == CHOOSE x \in S : TRUE IN f[k] + SumFun(f, S \ {k})

\* const value = e; F(value): the value is computed once.
Bind(e, F(_)) == CHOOSE r \in {F(value) : value \in {e}} : TRUE

\* Array.prototype.filter
Filter(s, Keep(_)) == SelectSeq(s, Keep)

\* Array.prototype.indexOf, 0-based, -1 when absent
IndexOf(s, x) ==
  IF \E i \in DOMAIN s : s[i] = x
  THEN (CHOOSE i \in DOMAIN s : s[i] = x /\ \A j \in 1..(i - 1) : s[j] # x) - 1
  ELSE -1

\* ---------------------------------------------------------- betting engine

activeNonFoldedPlayers(state) ==
  Filter(state.seatOrder, LAMBDA p : ~state.foldedByPlayerId[p])

\* canStillAct that lets a seat that is all-in act
canStillActWhenAllIn(state, playerId) ==
  ~state.foldedByPlayerId[playerId]

canStillAct(state, playerId) ==
  /\ ~state.foldedByPlayerId[playerId]
  /\ ~state.allInByPlayerId[playerId]
  /\ state.stackByPlayerId[playerId] > 0

\* playerNeedsAction that looks only at the contribution
playerNeedsActionOnlyWhenBehind(state, playerId) ==
  IF ~canStillAct(state, playerId) THEN FALSE
  ELSE state.roundContributionByPlayerId[playerId] < state.currentBet

\* playerNeedsAction that asks every seat that can act again and again
playerNeedsActionAlways(state, playerId) ==
  canStillAct(state, playerId)

playerNeedsAction(state, playerId) ==
  IF ~canStillAct(state, playerId) THEN FALSE
  ELSE IF state.roundContributionByPlayerId[playerId] < state.currentBet THEN TRUE
  ELSE ~state.hasActedByPlayerId[playerId]

\* afterPlayerId = NoPlayer is the source's null: the scan starts at index 0.
findNextPlayerNeedingAction(state, afterPlayerId) ==
  LET startIndex == IF afterPlayerId # NoPlayer
                    THEN IndexOf(state.seatOrder, afterPlayerId) ELSE -1
      totalSeats == Len(state.seatOrder)
      at(step)   == state.seatOrder[((startIndex + step + totalSeats) % totalSeats) + 1]
      hits       == {step \in 1..totalSeats : playerNeedsAction(state, at(step))}
  IN IF hits = {} THEN NoPlayer
     ELSE at(CHOOSE s \in hits : \A t \in hits : s <= t)

\* Mutant of buildPotsLoop: a folded seat stays eligible for the pots it paid into.
RECURSIVE buildPotsLoopFoldedEligible(_, _, _)
buildPotsLoopFoldedEligible(remaining, foldedByPlayerId, seatOrder) ==
  LET positiveContributors == Filter(seatOrder, LAMBDA p : remaining[p] > 0)
  IN IF positiveContributors = <<>> THEN <<>>
     ELSE
       LET level  == CHOOSE l \in {remaining[p] : p \in Range(positiveContributors)} :
                       \A p \in Range(positiveContributors) : l <= remaining[p]
           next   == [p \in DOMAIN remaining |->
                       IF p \in Range(positiveContributors)
                       THEN remaining[p] - level ELSE remaining[p]]
       IN <<[amount |-> level * Len(positiveContributors),
             eligiblePlayerIds |-> positiveContributors]>>
            \o buildPotsLoopFoldedEligible(next, foldedByPlayerId, seatOrder)

RECURSIVE buildPotsLoop(_, _, _)
buildPotsLoop(remaining, foldedByPlayerId, seatOrder) ==
  LET positiveContributors == Filter(seatOrder, LAMBDA p : remaining[p] > 0)
  IN IF positiveContributors = <<>> THEN <<>>
     ELSE
       LET level  == CHOOSE l \in {remaining[p] : p \in Range(positiveContributors)} :
                       \A p \in Range(positiveContributors) : l <= remaining[p]
           amount == level * Len(positiveContributors)
           eligiblePlayerIds ==
             Filter(positiveContributors, LAMBDA p : ~Get(foldedByPlayerId, p, FALSE))
           next   == [p \in DOMAIN remaining |->
                       IF p \in Range(positiveContributors)
                       THEN remaining[p] - level ELSE remaining[p]]
       IN <<[amount |-> amount, eligiblePlayerIds |-> eligiblePlayerIds]>>
            \o buildPotsLoop(next, foldedByPlayerId, seatOrder)

buildPots(totalContributionByPlayerId, foldedByPlayerId, seatOrder) ==
  buildPotsLoop([p \in Range(seatOrder) |-> Get(totalContributionByPlayerId, p, 0)],
                foldedByPlayerId, seatOrder)

\* Mutant of evaluateRound: a round that closes keeps its active player.
evaluateRoundKeepsActive(state, lastActorId) ==
  LET nonFolded == activeNonFoldedPlayers(state)
      nonFoldedThatCanAct == Filter(nonFolded, LAMBDA p : canStillAct(state, p))
      closed == [state EXCEPT
                   !.roundClosed = TRUE,
                   !.pots = buildPots(state.totalContributionByPlayerId,
                                      state.foldedByPlayerId, state.seatOrder)]
  IN IF Len(nonFolded) <= 1 \/ Len(nonFoldedThatCanAct) = 0 THEN closed
     ELSE LET nextPlayer == findNextPlayerNeedingAction(state, lastActorId)
          IN IF nextPlayer = NoPlayer THEN closed
             ELSE [state EXCEPT
                     !.activePlayerId = nextPlayer,
                     !.roundClosed = FALSE,
                     !.pots = buildPots(state.totalContributionByPlayerId,
                                        state.foldedByPlayerId, state.seatOrder)]

evaluateRound(state, lastActorId) ==
  LET nonFolded == activeNonFoldedPlayers(state)
      nonFoldedThatCanAct == Filter(nonFolded, LAMBDA p : canStillAct(state, p))
      closed == [state EXCEPT
                   !.activePlayerId = NoPlayer,
                   !.roundClosed = TRUE,
                   !.pots = buildPots(state.totalContributionByPlayerId,
                                      state.foldedByPlayerId, state.seatOrder)]
  IN IF Len(nonFolded) <= 1 \/ Len(nonFoldedThatCanAct) = 0 THEN closed
     ELSE LET nextPlayer == findNextPlayerNeedingAction(state, lastActorId)
          IN IF nextPlayer = NoPlayer THEN closed
             ELSE [state EXCEPT
                     !.activePlayerId = nextPlayer,
                     !.roundClosed = FALSE,
                     !.pots = buildPots(state.totalContributionByPlayerId,
                                        state.foldedByPlayerId, state.seatOrder)]

\* Mutant of postContribution: the amount reaches the contributions, the stack is not debited.
postContributionNoDebit(state, playerId, amount) ==
  [state EXCEPT
     !.roundContributionByPlayerId[playerId] = @ + amount,
     !.totalContributionByPlayerId[playerId] = @ + amount,
     !.allInByPlayerId[playerId] =
        IF state.stackByPlayerId[playerId] - amount = 0 THEN TRUE ELSE @]

postContribution(state, playerId, amount) ==
  [state EXCEPT
     !.stackByPlayerId[playerId] = @ - amount,
     !.roundContributionByPlayerId[playerId] = @ + amount,
     !.totalContributionByPlayerId[playerId] = @ + amount,
     !.allInByPlayerId[playerId] =
        IF state.stackByPlayerId[playerId] - amount = 0 THEN TRUE ELSE @]

resetHasActedForReopen(state, actorId) ==
  [p \in DOMAIN state.hasActedByPlayerId |->
     IF p \in Range(state.seatOrder)
     THEN (IF p = actorId THEN TRUE ELSE ~canStillAct(state, p))
     ELSE state.hasActedByPlayerId[p]]

\* config = [phase, seats : Seq([playerId, stack]), forcedBets :
\* Seq([playerId, amount]), firstToActPlayerId (NoPlayer when absent), minOpenBet]
createBettingStateThrows(config) ==
  \/ Len(config.seats) < 2
  \/ \E i, j \in DOMAIN config.seats : i # j /\ config.seats[i].playerId = config.seats[j].playerId
  \/ \E i \in DOMAIN config.seats : config.seats[i].stack < 0
  \/ \E i \in DOMAIN config.forcedBets :
        \/ config.forcedBets[i].playerId \notin {config.seats[k].playerId : k \in DOMAIN config.seats}
        \/ config.forcedBets[i].amount < 0

RECURSIVE postForcedBets(_, _)
postForcedBets(state, forcedBets) ==
  IF forcedBets = <<>> THEN state
  ELSE LET forcedBet == Head(forcedBets)
           available == state.stackByPlayerId[forcedBet.playerId]
           posted    == Min(available, forcedBet.amount)
           paid      == postContribution(state, forcedBet.playerId, posted)
       IN postForcedBets([paid EXCEPT !.actionLog = @ + 1], Tail(forcedBets))

createBettingState(config) ==
  LET seatOrder == [i \in DOMAIN config.seats |-> config.seats[i].playerId]
      ids       == Range(seatOrder)
      stackOf(p) == config.seats[CHOOSE i \in DOMAIN config.seats : config.seats[i].playerId = p].stack
      initial ==
        [phase                       |-> config.phase,
         seatOrder                   |-> seatOrder,
         activePlayerId              |-> NoPlayer,
         foldedByPlayerId            |-> [p \in ids |-> FALSE],
         allInByPlayerId             |-> [p \in ids |-> stackOf(p) = 0],
         stackByPlayerId             |-> [p \in ids |-> stackOf(p)],
         roundContributionByPlayerId |-> [p \in ids |-> 0],
         totalContributionByPlayerId |-> [p \in ids |-> 0],
         hasActedByPlayerId          |-> [p \in ids |-> FALSE],
         currentBet                  |-> 0,
         minRaiseIncrement           |-> Max(1, config.minOpenBet),
         minOpenBet                  |-> Max(1, config.minOpenBet),
         roundClosed                 |-> FALSE,
         pots                        |-> <<>>,
         actionLog                   |-> 0]
      posted == postForcedBets(initial, config.forcedBets)
      currentBet ==
        CHOOSE m \in {posted.roundContributionByPlayerId[p] : p \in ids} \cup {0} :
          \A p \in ids : m >= posted.roundContributionByPlayerId[p]
      withBet == [posted EXCEPT
                    !.currentBet = currentBet,
                    !.minRaiseIncrement = IF currentBet > 0 THEN Max(@, currentBet) ELSE @]
      first == IF config.firstToActPlayerId # NoPlayer /\ config.firstToActPlayerId \in ids
               THEN config.firstToActPlayerId
               ELSE findNextPlayerNeedingAction(withBet, NoPlayer)
      state == [withBet EXCEPT
                  !.activePlayerId = first,
                  !.pots = buildPots(withBet.totalContributionByPlayerId,
                                     withBet.foldedByPlayerId, withBet.seatOrder)]
  IN IF first # NoPlayer /\ playerNeedsAction(state, first)
     THEN [state EXCEPT !.roundClosed = FALSE]
     ELSE evaluateRound(state, NoPlayer)

\* getAvailableActions offering a raise whatever the stack
getAvailableActionsRaiseAnyStack(state, playerId) ==
  LET contribution == Get(state.roundContributionByPlayerId, playerId, 0)
      stack        == Get(state.stackByPlayerId, playerId, 0)
      callAmount   == Max(0, state.currentBet - contribution)
      canAct ==
        /\ state.activePlayerId = playerId
        /\ ~state.roundClosed
        /\ ~Get(state.foldedByPlayerId, playerId, FALSE)
        /\ ~Get(state.allInByPlayerId, playerId, FALSE)
        /\ stack > 0
      minBet     == Max(state.minOpenBet, state.minRaiseIncrement)
      minRaiseTo == state.currentBet + state.minRaiseIncrement
  IN IF ~canAct
     THEN [canFold |-> FALSE, canCheck |-> FALSE, canCall |-> FALSE, canBet |-> FALSE,
           canRaise |-> FALSE, canAllIn |-> FALSE,
           callAmount |-> callAmount, minBet |-> minBet, minRaiseTo |-> minRaiseTo]
     ELSE [canFold  |-> TRUE,
           canCheck |-> callAmount = 0,
           canCall  |-> callAmount > 0 /\ stack > 0,
           canBet   |-> state.currentBet = 0 /\ stack >= minBet,
           canRaise |-> state.currentBet > 0,
           canAllIn |-> stack > 0,
           callAmount |-> callAmount, minBet |-> minBet, minRaiseTo |-> minRaiseTo]

getAvailableActions(state, playerId) ==
  LET contribution == Get(state.roundContributionByPlayerId, playerId, 0)
      stack        == Get(state.stackByPlayerId, playerId, 0)
      callAmount   == Max(0, state.currentBet - contribution)
      canAct ==
        /\ state.activePlayerId = playerId
        /\ ~state.roundClosed
        /\ ~Get(state.foldedByPlayerId, playerId, FALSE)
        /\ ~Get(state.allInByPlayerId, playerId, FALSE)
        /\ stack > 0
      minBet     == Max(state.minOpenBet, state.minRaiseIncrement)
      minRaiseTo == state.currentBet + state.minRaiseIncrement
  IN IF ~canAct
     THEN [canFold |-> FALSE, canCheck |-> FALSE, canCall |-> FALSE, canBet |-> FALSE,
           canRaise |-> FALSE, canAllIn |-> FALSE,
           callAmount |-> callAmount, minBet |-> minBet, minRaiseTo |-> minRaiseTo]
     ELSE [canFold  |-> TRUE,
           canCheck |-> callAmount = 0,
           canCall  |-> callAmount > 0 /\ stack > 0,
           canBet   |-> state.currentBet = 0 /\ stack >= minBet,
           canRaise |-> state.currentBet > 0 /\ contribution + stack >= minRaiseTo,
           canAllIn |-> stack > 0,
           callAmount |-> callAmount, minBet |-> minBet, minRaiseTo |-> minRaiseTo]

\* The error of validateTurn, "" when the turn is valid (the source's null).
\* Mutant of validateTurn: the comparison with activePlayerId is left out.
validateTurnAnySeat(state, playerId) ==
  IF playerId \notin Range(state.seatOrder) THEN "Unknown player"
  ELSE IF state.roundClosed THEN "Round is already closed"
  ELSE IF state.foldedByPlayerId[playerId] THEN "Player has already folded"
  ELSE IF state.allInByPlayerId[playerId] THEN "Player is already all-in"
  ELSE IF state.stackByPlayerId[playerId] <= 0 THEN "Player has no chips remaining"
  ELSE ""

validateTurn(state, playerId) ==
  IF playerId \notin Range(state.seatOrder) THEN "Unknown player"
  ELSE IF state.roundClosed THEN "Round is already closed"
  ELSE IF state.activePlayerId # playerId THEN "It is not this player's turn"
  ELSE IF state.foldedByPlayerId[playerId] THEN "Player has already folded"
  ELSE IF state.allInByPlayerId[playerId] THEN "Player is already all-in"
  ELSE IF state.stackByPlayerId[playerId] <= 0 THEN "Player has no chips remaining"
  ELSE ""

BettingOk(state) == [ok |-> TRUE, threw |-> FALSE, error |-> "", state |-> state]
\* Mutant of BettingFail: the failing call has appended to the action log of its argument.
BettingFailLogged(state, error) ==
  [ok |-> FALSE, threw |-> FALSE, error |-> error,
   state |-> [state EXCEPT !.actionLog = @ + 1]]

\* `state` is the argument of the failing call: every write of applyBettingAction
\* goes to the copies made at its lines 1259-1268 and follows the last error return.
BettingFail(state, error) == [ok |-> FALSE, threw |-> FALSE, error |-> error, state |-> state]

\* fold, check, call, bet and raise of applyBettingAction, after validateTurn.
\* action = [type, amount]; amount is bet.amount or raise.toAmount.
applyBettingBranch(state, playerId, action) ==
  LET contribution == state.roundContributionByPlayerId[playerId]
      stack        == state.stackByPlayerId[playerId]
      callAmount   == Max(0, state.currentBet - contribution)
      pay(s, amount) ==
        [s EXCEPT
           !.stackByPlayerId[playerId] = @ - amount,
           !.roundContributionByPlayerId[playerId] = @ + amount,
           !.totalContributionByPlayerId[playerId] = @ + amount,
           !.allInByPlayerId[playerId] = IF stack - amount = 0 THEN TRUE ELSE @]
  IN
  CASE action.type = "fold" ->
         BettingOk(evaluateRound(
           [state EXCEPT !.foldedByPlayerId[playerId] = TRUE,
                         !.hasActedByPlayerId[playerId] = TRUE,
                         !.actionLog = @ + 1], playerId))
    [] action.type = "check" ->
         IF callAmount # 0 THEN BettingFail(state, "Cannot check when facing a bet")
         ELSE BettingOk(evaluateRound(
                [state EXCEPT !.hasActedByPlayerId[playerId] = TRUE,
                              !.actionLog = @ + 1], playerId))
    [] action.type = "call" ->
         IF callAmount = 0 THEN BettingFail(state, "Nothing to call")
         ELSE LET paid == Min(stack, callAmount)
              IN IF paid <= 0 THEN BettingFail(state, "No chips available to call")
                 ELSE BettingOk(evaluateRound(
                        [pay(state, paid) EXCEPT !.hasActedByPlayerId[playerId] = TRUE,
                                                 !.actionLog = @ + 1], playerId))
    [] action.type = "bet" ->
         IF state.currentBet # 0
         THEN BettingFail(state, "Cannot bet after a bet already exists, use raise")
         ELSE IF action.amount > stack THEN BettingFail(state, "Bet exceeds stack")
         ELSE LET isAllIn == action.amount = stack
                  minBet  == Max(state.minOpenBet, state.minRaiseIncrement)
              IN IF ~isAllIn /\ action.amount < minBet
                 THEN BettingFail(state, "Minimum bet is")
                 ELSE LET paid == pay(state, action.amount)
                          bet  == [paid EXCEPT
                                     !.currentBet = paid.roundContributionByPlayerId[playerId],
                                     !.minRaiseIncrement =
                                        IF action.amount >= @ THEN action.amount ELSE @]
                      IN BettingOk(evaluateRound(
                           [bet EXCEPT !.hasActedByPlayerId = resetHasActedForReopen(bet, playerId),
                                       !.actionLog = @ + 1], playerId))
    [] action.type = "raise" ->
         IF state.currentBet = 0
         THEN BettingFail(state, "Cannot raise when there is no bet, use bet")
         ELSE IF action.amount <= state.currentBet
         THEN BettingFail(state, "Raise must increase the current bet")
         ELSE LET additional     == action.amount - contribution
                  raiseIncrement == action.amount - state.currentBet
                  isAllIn        == additional = stack
              IN IF additional <= 0
                 THEN BettingFail(state, "Raise target is too small for this player contribution")
                 ELSE IF additional > stack THEN BettingFail(state, "Raise exceeds stack")
                 ELSE IF ~isAllIn /\ raiseIncrement < state.minRaiseIncrement
                 THEN BettingFail(state, "Minimum raise increment is")
                 ELSE LET paid   == pay(state, additional)
                          raised == [paid EXCEPT
                                       !.currentBet = Max(@, action.amount),
                                       !.minRaiseIncrement =
                                          IF raiseIncrement >= @ THEN raiseIncrement ELSE @]
                      IN BettingOk(evaluateRound(
                           [raised EXCEPT
                              !.hasActedByPlayerId = resetHasActedForReopen(raised, playerId),
                              !.actionLog = @ + 1], playerId))
    [] OTHER -> BettingFail(state, "Unsupported action")

\* Mutant of applyBettingAction: every accepted lift of currentBet becomes the
\* new minRaiseIncrement (the test raiseIncrement >= minRaiseIncrement is dropped).
applyBettingActionAnyLiftIsIncrement(state, playerId, action) ==
  Bind(validateTurn(state, playerId), LAMBDA turnError :
    IF turnError # "" THEN BettingFail(state, turnError)
    ELSE IF action.type = "all_in" /\ state.stackByPlayerId[playerId] <= 0
    THEN BettingFail(state, "No chips available for all-in")
    ELSE Bind(applyBettingBranch(state, playerId,
           IF action.type # "all_in" THEN action
           ELSE IF state.currentBet = 0
             THEN [type |-> "bet", amount |-> state.stackByPlayerId[playerId]]
           ELSE IF state.roundContributionByPlayerId[playerId]
                     + state.stackByPlayerId[playerId] <= state.currentBet
             THEN [type |-> "call", amount |-> 0]
           ELSE [type |-> "raise",
                 amount |-> state.roundContributionByPlayerId[playerId]
                              + state.stackByPlayerId[playerId]]),
         LAMBDA result :
           IF result.ok /\ result.state.currentBet > state.currentBet
           THEN [result EXCEPT !.state.minRaiseIncrement =
                                  result.state.currentBet - state.currentBet]
           ELSE result))

\* Mutant of applyBettingAction: a check is taken without looking at what the seat owes.
applyBettingActionCheckAlways(state, playerId, action) ==
  Bind(validateTurn(state, playerId), LAMBDA turnError :
    IF turnError # "" THEN BettingFail(state, turnError)
    ELSE IF action.type = "check"
    THEN BettingOk(evaluateRound(
           [state EXCEPT !.hasActedByPlayerId[playerId] = TRUE,
                         !.actionLog = @ + 1], playerId))
    ELSE IF action.type = "all_in" /\ state.stackByPlayerId[playerId] <= 0
    THEN BettingFail(state, "No chips available for all-in")
    ELSE applyBettingBranch(state, playerId,
           IF action.type # "all_in" THEN action
           ELSE IF state.currentBet = 0
             THEN [type |-> "bet", amount |-> state.stackByPlayerId[playerId]]
           ELSE IF state.roundContributionByPlayerId[playerId]
                     + state.stackByPlayerId[playerId] <= state.currentBet
             THEN [type |-> "call", amount |-> 0]
           ELSE [type |-> "raise",
                 amount |-> state.roundContributionByPlayerId[playerId]
                              + state.stackByPlayerId[playerId]]))

\* applyBettingAction with all_in always taken as a raise to the whole stack
applyBettingActionAllInRaises(state, playerId, action) ==
  Bind(validateTurn(state, playerId), LAMBDA turnError :
    IF turnError # "" THEN BettingFail(state, turnError)
    ELSE IF action.type = "all_in" /\ state.stackByPlayerId[playerId] <= 0
    THEN BettingFail(state, "No chips available for all-in")
    ELSE applyBettingBranch(state, playerId,
           IF action.type # "all_in" THEN action
           ELSE [type |-> "raise",
                 amount |-> state.roundContributionByPlayerId[playerId]
                              + state.stackByPlayerId[playerId]]))

applyBettingAction(state, playerId, action) ==
  Bind(validateTurn(state, playerId), LAMBDA turnError :
    IF turnError # "" THEN BettingFail(state, turnError)
    ELSE IF action.type = "all_in" /\ state.stackByPlayerId[playerId] <= 0
    THEN BettingFail(state, "No chips available for all-in")
    ELSE applyBettingBranch(state, playerId,
           IF action.type # "all_in" THEN action
           ELSE IF state.currentBet = 0
             THEN [type |-> "bet", amount |-> state.stackByPlayerId[playerId]]
           ELSE IF state.roundContributionByPlayerId[playerId]
                     + state.stackByPlayerId[playerId] <= state.currentBet
             THEN [type |-> "call", amount |-> 0]
           ELSE [type |-> "raise",
                 amount |-> state.roundContributionByPlayerId[playerId]
                              + state.stackByPlayerId[playerId]]))

isRoundClosed(state) == state.roundClosed

getBettingStatus(state) ==
  [activePlayerId |-> state.activePlayerId,
   roundClosed    |-> state.roundClosed,
   currentBet     |-> state.currentBet,
   minRaiseIncrement |-> state.minRaiseIncrement,
   callAmount     |-> IF state.activePlayerId # NoPlayer
                      THEN Max(0, state.currentBet
                                  - state.roundContributionByPlayerId[state.activePlayerId])
                      ELSE 0,
   pots           |-> state.pots,
   roundContributionByPlayerId |-> state.roundContributionByPlayerId,
   totalContributionByPlayerId |-> state.totalContributionByPlayerId]


\* ---------------------------------------------------------- hand evaluator

Ranks == <<"2", "3", "4", "5", "6", "7", "8", "9", "T", "J", "Q", "K", "A">>
Suits == <<"clubs", "diamonds", "hearts", "spades">>

RANK_TO_VALUE ==
  ("2" :> 2) @@ ("3" :> 3) @@ ("4" :> 4) @@ ("5" :> 5) @@ ("6" :> 6) @@ ("7" :> 7) @@ ("8" :> 8)
    @@ ("9" :> 9) @@ ("T" :> 10) @@ ("J" :> 11) @@ ("Q" :> 12) @@ ("K" :> 13) @@ ("A" :> 14)

\* A Card { rank, suit } is held as its number 0..51 in the canonical deck:
\* thirteen ranks of clubs, then of diamonds, of hearts, of spades.
cardRank(card) == Ranks[(card % 13) + 1]
cardSuit(card) == Suits[(card \div 13) + 1]

\* The elements of a set of integers as a sequence, largest first.
RECURSIVE SetDesc(_)
SetDesc(S) ==
  IF S = {} THEN <<>>
  ELSE LET m == CHOOSE x \in S : \A y \in S : x >= y IN <<m>> \o SetDesc(S \ {m})

\* [...countsByRank.entries()].sort(count descending, then rank descending);
\* an entry is <<rank value, count>>
RECURSIVE sortGroups(_, _)
sortGroups(countsByRank, left) ==
  IF left = {} THEN <<>>
  ELSE Bind(CHOOSE x \in left : \A y \in left :
              \/ countsByRank[x] > countsByRank[y]
              \/ countsByRank[x] = countsByRank[y] /\ x >= y, LAMBDA g :
         <<<<g, countsByRank[g]>>>> \o sortGroups(countsByRank, left \ {g}))

\* values.sort((a, b) => b - a), duplicates kept
RECURSIVE sortValuesDesc(_, _)
sortValuesDesc(countsByRank, unique) ==
  IF unique = <<>> THEN <<>>
  ELSE [i \in 1..countsByRank[Head(unique)] |-> Head(unique)]
         \o sortValuesDesc(countsByRank, Tail(unique))

\* Mutant of straightHighOf: the wheel is not a straight.
straightHighOfNoWheel(unique) ==
  IF Len(unique) >= 5 /\ \E i \in 0..(Len(unique) - 5) : unique[i + 1] - unique[i + 5] = 4
  THEN unique[1 + CHOOSE i \in 0..(Len(unique) - 5) :
                    /\ unique[i + 1] - unique[i + 5] = 4
                    /\ \A j \in 0..(i - 1) : unique[j + 1] - unique[j + 5] # 4]
  ELSE 0

\* The high card of the first five-card window of `unique` (the distinct values,
\* descending) that spans four ranks; the wheel A-5-4-3-2 counts as five high; 0 if none.
straightHighOf(unique) ==
  IF Len(unique) >= 5 /\ \E i \in 0..(Len(unique) - 5) : unique[i + 1] - unique[i + 5] = 4
  THEN unique[1 + CHOOSE i \in 0..(Len(unique) - 5) :
                    /\ unique[i + 1] - unique[i + 5] = 4
                    /\ \A j \in 0..(i - 1) : unique[j + 1] - unique[j + 5] # 4]
  ELSE IF {14, 5, 4, 3, 2} \subseteq Range(unique) THEN 5 ELSE 0

\* The score of a hand from its sorted values, its groups and its two shape flags.
scoreOf(sortedValues, groups, isFlush, straightHigh) ==
  IF isFlush /\ straightHigh # 0
    THEN [category |-> "straight_flush", scoreVector |-> <<8, straightHigh>>]
  ELSE IF groups[1][2] = 4
    THEN [category |-> "four_of_a_kind", scoreVector |-> <<7, groups[1][1], groups[2][1]>>]
  ELSE IF groups[1][2] = 3 /\ groups[2][2] = 2
    THEN [category |-> "full_house", scoreVector |-> <<6, groups[1][1], groups[2][1]>>]
  ELSE IF isFlush
    THEN [category |-> "flush", scoreVector |-> <<5>> \o sortedValues]
  ELSE IF straightHigh # 0
    THEN [category |-> "straight", scoreVector |-> <<4, straightHigh>>]
  ELSE IF groups[1][2] = 3
    THEN [category |-> "three_of_a_kind",
          scoreVector |-> <<3, groups[1][1]>> \o SetDesc({groups[i][1] : i \in 2..Len(groups)})]
  ELSE IF groups[1][2] = 2 /\ groups[2][2] = 2
    THEN [category |-> "two_pair",
          scoreVector |-> <<2, Max(groups[1][1], groups[2][1]),
                            Min(groups[1][1], groups[2][1]), groups[3][1]>>]
  ELSE IF groups[1][2] = 2
    THEN [category |-> "pair",
          scoreVector |-> <<1, groups[1][1]>> \o SetDesc({groups[i][1] : i \in 2..Len(groups)})]
  ELSE [category |-> "high_card", scoreVector |-> <<0>> \o sortedValues]

evaluateFive(cards) ==
  Bind(<<>> \o [i \in DOMAIN cards |-> RANK_TO_VALUE[cardRank(cards[i])]], LAMBDA values :
  Bind(SetDesc(Range(values)), LAMBDA unique :
  Bind([v \in Range(values) |-> Cardinality({i \in DOMAIN values : values[i] = v})]
         @@ <<>>, LAMBDA countsByRank :
  Bind(sortGroups(countsByRank, Range(values)), LAMBDA groups :
  Bind(straightHighOf(unique), LAMBDA straightHigh :
    scoreOf(sortValuesDesc(countsByRank, unique), groups,
            Cardinality({cardSuit(cards[i]) : i \in DOMAIN cards}) = 1,
            straightHigh))))))

compareScoreVectors(a, b) ==
  LET max   == Max(Len(a), Len(b))
      at(v, i) == IF i <= Len(v) THEN v[i] ELSE 0
      diffs == {i \in 1..max : at(a, i) # at(b, i)}
  IN IF diffs = {} THEN 0
     ELSE LET i == CHOOSE x \in diffs : \A y \in diffs : x <= y
          IN IF at(a, i) > at(b, i) THEN 1 ELSE -1

evaluateBestHandThrows(cards) == Len(cards) < 5 \/ Len(cards) > 7

\* Every a < b < ... of `count` indices drawn from from..n, in the order the
\* nested loops of lines 374-389 visit them.
RECURSIVE chooseFrom(_, _, _)
chooseFrom(from, n, count) ==
  IF count = 0 THEN << <<>> >>
  ELSE IF from > n THEN <<>>
  ELSE Bind(chooseFrom(from + 1, n, count - 1), LAMBDA rest :
         [i \in 1..Len(rest) |-> <<from>> \o rest[i]] \o chooseFrom(from + 1, n, count))

\* The index tuples of the loops for a hand of 5, 6 and 7 cards.
fiveCardPicks == <<chooseFrom(1, 5, 5), chooseFrom(1, 6, 5), chooseFrom(1, 7, 5)>>

\* if (!best || compareScoreVectors(score.scoreVector, best.scoreVector) > 0) best = score
RECURSIVE bestOfPicks(_, _, _, _)
bestOfPicks(cards, picks, k, best) ==
  IF k > Len(picks) THEN best
  ELSE Bind(evaluateFive(<<cards[picks[k][1]], cards[picks[k][2]], cards[picks[k][3]],
                           cards[picks[k][4]], cards[picks[k][5]]>>), LAMBDA score :
       Bind(IF best = Null \/ compareScoreVectors(score.scoreVector, best.scoreVector) > 0
            THEN score ELSE best, LAMBDA kept :
         bestOfPicks(cards, picks, k + 1, kept)))

evaluateBestHand(cards) ==
  Bind(cards, LAMBDA hand : bestOfPicks(hand, fiveCardPicks[Len(hand) - 4], 1, Null))


\* ------------------------------------------------------------ Hold'em module

nextSeatIndex(current, total) == (current + 1) % total

\* The seats visited are startSeat + 1, ..., startSeat + total (mod total); the
\* first one in the hand (and with chips when requireStack) is returned, else startSeat.
findNextActiveSeat(players, startSeat, requireStack) ==
  LET total == Len(players)
      seat(step) == (startSeat + step) % total
      good(step) == /\ players[seat(step) + 1].inHand
                    /\ ~(requireStack /\ players[seat(step) + 1].stack <= 0)
      hits == {step \in 1..total : good(step)}
  IN IF hits = {} THEN startSeat
     ELSE seat(CHOOSE s \in hits : \A t \in hits : s <= t)

activeInHandPlayers(players) == Filter(players, LAMBDA pl : pl.inHand /\ ~pl.folded)

PlayerIds(players) == [i \in DOMAIN players |-> players[i].id]

dealToPlayersThrows(deck, players) ==
  Len(deck) < 2 * Len(Filter(players, LAMBDA pl : pl.inHand))

\* dealToPlayers that deals two rounds without taking the cards off the deck
dealToPlayersKeepsDeck(deck, players) ==
  LET inHand == PlayerIds(Filter(players, LAMBDA pl : pl.inHand))
      k      == Len(inHand)
  IN [deck |-> deck,
      holeCardsByPlayerId |->
        [id \in Range(PlayerIds(players)) |->
           IF id \in Range(inHand)
           THEN <<deck[IndexOf(inHand, id) + 1], deck[k + IndexOf(inHand, id) + 1]>>
           ELSE <<>>]]

\* Two rounds over the seats in order, one card each from the front of the deck.
dealToPlayers(deck, players) ==
  LET inHand == PlayerIds(Filter(players, LAMBDA pl : pl.inHand))
      k      == Len(inHand)
  IN [deck |-> SubSeq(deck, 2 * k + 1, Len(deck)),
      holeCardsByPlayerId |->
        [id \in Range(PlayerIds(players)) |->
           IF id \in Range(inHand)
           THEN <<deck[IndexOf(inHand, id) + 1], deck[k + IndexOf(inHand, id) + 1]>>
           ELSE <<>>]]

\* players with stack and allIn taken from the betting state (for its seats)
stacksFromBetting(players, bettingState) ==
  [i \in DOMAIN players |->
     IF players[i].id \in DOMAIN bettingState.stackByPlayerId
     THEN [players[i] EXCEPT !.stack = bettingState.stackByPlayerId[players[i].id],
                             !.allIn = bettingState.allInByPlayerId[players[i].id]]
     ELSE players[i]]

foldedFlags(players) == [id \in Range(PlayerIds(players)) |->
                           players[IndexOf(PlayerIds(players), id) + 1].folded]

inHandIds(players) == PlayerIds(Filter(players, LAMBDA pl : pl.inHand))

\* preflopConfig with the postflop rule for the first seat to act
preflopConfigFirstAfterDealer(state) ==
  LET playersInHand == Filter(state.players, LAMBDA pl : pl.inHand /\ pl.stack > 0)
      sbSeat == findNextActiveSeat(state.players, state.dealerSeatIndex, TRUE)
      bbSeat == findNextActiveSeat(state.players, sbSeat, TRUE)
  IN [phase |-> "preflop",
      seats |-> [i \in DOMAIN playersInHand |->
                   [playerId |-> playersInHand[i].id, stack |-> playersInHand[i].stack]],
      forcedBets |-> <<[playerId |-> state.players[sbSeat + 1].id, amount |-> state.smallBlind],
                       [playerId |-> state.players[bbSeat + 1].id, amount |-> state.bigBlind]>>,
      firstToActPlayerId |-> state.players[sbSeat + 1].id,
      minOpenBet |-> state.bigBlind]

preflopConfig(state) ==
  LET playersInHand == Filter(state.players, LAMBDA pl : pl.inHand /\ pl.stack > 0)
      sbSeat == findNextActiveSeat(state.players, state.dealerSeatIndex, TRUE)
      bbSeat == findNextActiveSeat(state.players, sbSeat, TRUE)
      firstToActSeat == findNextActiveSeat(state.players, bbSeat, TRUE)
  IN [phase |-> "preflop",
      seats |-> [i \in DOMAIN playersInHand |->
                   [playerId |-> playersInHand[i].id, stack |-> playersInHand[i].stack]],
      forcedBets |-> <<[playerId |-> state.players[sbSeat + 1].id, amount |-> state.smallBlind],
                       [playerId |-> state.players[bbSeat + 1].id, amount |-> state.bigBlind]>>,
      firstToActPlayerId |-> state.players[firstToActSeat + 1].id,
      minOpenBet |-> state.bigBlind]

setupPreflopBetting(state) ==
  IF Len(Filter(state.players, LAMBDA pl : pl.inHand /\ pl.stack > 0)) < 2
  THEN [state EXCEPT !.phase = "showdown", !.bettingState = Null, !.pots = <<>>]
  ELSE
    Bind(createBettingState(preflopConfig(state)), LAMBDA bettingState :
    Bind(stacksFromBetting(state.players, bettingState), LAMBDA nextPlayers :
    Bind([id \in DOMAIN state.handContributionByPlayerId \cup Range(PlayerIds(nextPlayers)) |->
            IF id \in Range(PlayerIds(nextPlayers))
            THEN Get(bettingState.roundContributionByPlayerId, id, 0)
            ELSE state.handContributionByPlayerId[id]], LAMBDA handContributionByPlayerId :
    Bind(buildPots(handContributionByPlayerId, foldedFlags(nextPlayers),
                   inHandIds(nextPlayers)), LAMBDA pots :
      [state EXCEPT
         !.phase = "preflop",
         !.players = nextPlayers,
         !.bettingState = bettingState,
         !.pots = IF Len(pots) > 0 THEN pots ELSE getBettingStatus(bettingState).pots,
         !.handContributionByPlayerId = handContributionByPlayerId,
         !.actionLog = @ + 1]))))

postflopConfig(state, phase) ==
  LET playersInHand == Filter(state.players, LAMBDA pl : pl.inHand /\ ~pl.folded)
      firstToActSeat == findNextActiveSeat(state.players, state.dealerSeatIndex, TRUE)
  IN [phase |-> phase,
      seats |-> [i \in DOMAIN playersInHand |->
                   [playerId |-> playersInHand[i].id, stack |-> playersInHand[i].stack]],
      forcedBets |-> <<>>,
      firstToActPlayerId |-> state.players[firstToActSeat + 1].id,
      minOpenBet |-> state.bigBlind]

setupPostflopBetting(state, phase) ==
  LET playersInHand == Filter(state.players, LAMBDA pl : pl.inHand /\ ~pl.folded)
      actionable    == Filter(playersInHand, LAMBDA pl : pl.stack > 0)
  IN IF Len(playersInHand) <= 1 \/ Len(actionable) = 0
     THEN [state EXCEPT !.phase = "showdown", !.bettingState = Null]
     ELSE
       Bind(createBettingState(postflopConfig(state, phase)), LAMBDA bettingState :
         [state EXCEPT
            !.phase = phase,
            !.players = stacksFromBetting(state.players, bettingState),
            !.bettingState = bettingState,
            !.actionLog = @ + 1])

seatIndexOf(players, id) ==
  IF \E i \in DOMAIN players : players[i].id = id
  THEN players[CHOOSE i \in DOMAIN players :
                 players[i].id = id /\ \A j \in 1..(i - 1) : players[j].id # id].seatIndex
  ELSE 0

\* winners.sort((a, b) => seatIndex(a) - seatIndex(b)); the sort is stable
RECURSIVE sortBySeat(_, _)
sortBySeat(players, ids) ==
  IF ids = <<>> THEN <<>>
  ELSE LET i == CHOOSE x \in DOMAIN ids :
                  /\ \A y \in DOMAIN ids : seatIndexOf(players, ids[x]) <= seatIndexOf(players, ids[y])
                  /\ \A y \in 1..(x - 1) : seatIndexOf(players, ids[y]) # seatIndexOf(players, ids[x])
       IN <<ids[i]>> \o sortBySeat(players, SubSeq(ids, 1, i - 1) \o SubSeq(ids, i + 1, Len(ids)))

showdownCards(state, id) == state.holeCardsByPlayerId[id] \o state.board

runShowdownThrows(state) ==
  \E i \in DOMAIN state.players :
     /\ state.players[i].inHand /\ ~state.players[i].folded
     /\ evaluateBestHandThrows(showdownCards(state, state.players[i].id))

\* The chips one pot awards, as a function of the players scored at showdown.
awardPot(state, pot, handScoreByPlayerId) ==
  LET scored     == DOMAIN handScoreByPlayerId
      contenders == Filter(pot.eligiblePlayerIds, LAMBDA id : id \in scored)
  IN IF Len(contenders) = 0 THEN [id \in scored |-> 0]
     ELSE
       LET best == CHOOSE id \in Range(contenders) : \A o \in Range(contenders) :
                     compareScoreVectors(handScoreByPlayerId[id].scoreVector,
                                         handScoreByPlayerId[o].scoreVector) >= 0
           winners == sortBySeat(state.players,
                        Filter(contenders, LAMBDA id :
                          compareScoreVectors(handScoreByPlayerId[id].scoreVector,
                                              handScoreByPlayerId[best].scoreVector) = 0))
           share     == pot.amount \div Len(winners)
           remainder == pot.amount % Len(winners)
       IN [id \in scored |->
             IF id \in Range(winners)
             THEN share + (IF IndexOf(winners, id) < remainder THEN 1 ELSE 0)
             ELSE 0]

RECURSIVE awardPots(_, _, _)
awardPots(state, pots, handScoreByPlayerId) ==
  IF pots = <<>> THEN [id \in DOMAIN handScoreByPlayerId |-> 0]
  ELSE LET first == awardPot(state, Head(pots), handScoreByPlayerId)
           rest  == awardPots(state, Tail(pots), handScoreByPlayerId)
       IN [id \in DOMAIN handScoreByPlayerId |-> first[id] + rest[id]]

\* handScoreByPlayerId, in the order the loop of lines 400-404 fills it
RECURSIVE handScores(_, _)
handScores(state, ids) ==
  IF ids = <<>> THEN <<>>
  ELSE <<evaluateBestHand(showdownCards(state, Head(ids)))>> \o handScores(state, Tail(ids))

runShowdown(state) ==
  Bind(PlayerIds(Filter(state.players, LAMBDA pl : pl.inHand /\ ~pl.folded)), LAMBDA ids :
    IF Len(ids) = 0
    THEN [state EXCEPT
            !.phase = "hand_end",
            !.showdown = [winners |-> <<>>, awardedByPlayerId |-> <<>>,
                          handScoreByPlayerId |-> <<>>, summary |-> "No winners"]]
    ELSE
      Bind(handScores(state, ids), LAMBDA scores :
      Bind([id \in Range(ids) |-> scores[IndexOf(ids, id) + 1]], LAMBDA handScoreByPlayerId :
      Bind(awardPots(state, state.pots, handScoreByPlayerId), LAMBDA awardedByPlayerId :
      Bind(Filter(ids, LAMBDA id : awardedByPlayerId[id] > 0), LAMBDA winners :
        [state EXCEPT
           !.players = [i \in DOMAIN state.players |->
                          [state.players[i] EXCEPT
                             !.stack = @ + Get(awardedByPlayerId, state.players[i].id, 0)]],
           !.phase = "hand_end",
           !.showdown = [winners |-> winners,
                         awardedByPlayerId |-> awardedByPlayerId,
                         handScoreByPlayerId |-> handScoreByPlayerId,
                         summary |-> IF Len(winners) > 0 THEN "Winners" ELSE "No chips awarded"],
           !.actionLog = @ + 1])))))


advanceAfterRoundClosedThrows(state) ==
  IF state.bettingState = Null \/ ~isRoundClosed(state.bettingState) THEN FALSE
  ELSE IF Len(activeInHandPlayers(state.players)) <= 1 THEN runShowdownThrows(state)
  ELSE IF state.phase \in {"flop", "turn"} THEN state.deck = <<>>
  ELSE IF state.phase = "river" THEN runShowdownThrows(state)
  ELSE FALSE

\* The phase after `phase` and the number of board cards dealt on the way to it.
nextStreet(phase) ==
  CASE phase = "preflop" -> [phase |-> "flop", cards |-> 3]
    [] phase = "flop"    -> [phase |-> "turn", cards |-> 1]
    [] phase = "turn"    -> [phase |-> "river", cards |-> 1]

advanceAfterRoundClosed(state) ==
  IF state.bettingState = Null \/ ~isRoundClosed(state.bettingState) THEN state
  ELSE IF Len(activeInHandPlayers(state.players)) <= 1 \/ state.phase = "river"
    THEN runShowdown([state EXCEPT !.phase = "showdown", !.bettingState = Null])
  ELSE IF state.phase \in {"preflop", "flop", "turn"}
    THEN Bind(IF state.phase = "preflop" THEN Min(3, Len(state.deck)) ELSE 1, LAMBDA n :
           setupPostflopBetting(
             [state EXCEPT !.phase = nextStreet(state.phase).phase,
                           !.deck = SubSeq(state.deck, n + 1, Len(state.deck)),
                           !.board = @ \o SubSeq(state.deck, 1, n),
                           !.bettingState = Null,
                           !.actionLog = @ + 1], nextStreet(state.phase).phase))
  ELSE state

\* action = [type, amount]; amount stands for payload.amount / payload.toAmount,
\* 0 for a payload that is missing or not a positive integer. Null is the source's null.
toBettingAction(action) ==
  IF action.type \in {"fold", "check", "call", "all_in"}
    THEN [type |-> action.type, amount |-> 0]
  ELSE IF action.type \in {"bet", "raise"}
    THEN (IF action.amount <= 0 THEN Null ELSE [type |-> action.type, amount |-> action.amount])
  ELSE Null

\* ------------------------------------------------- deterministic RNG + deck

\* SeededRng keeps a 32-bit unsigned state; it is held here as <<high, low>> 16-bit
\* halves so that no intermediate product leaves the integers of the checker.
Half == 65536
LcgMulHigh == 25
LcgMulLow == 26125
LcgIncHigh == 15470
LcgIncLow == 62303

rngSeed(seed) == <<(seed \div Half) % Half, seed % Half>>

\* this.state = (1664525 * this.state + 1013904223) >>> 0
rngNext(state) ==
  LET low  == LcgMulLow * state[2] + LcgIncLow
      high == LcgMulHigh * state[2] + LcgMulLow * state[1] + LcgIncHigh + (low \div Half)
  IN <<high % Half, low % Half>>

\* Math.floor(state / 2^32 * maxExclusive), for the state after next()
rngInt(state, maxExclusive) ==
  (state[1] * maxExclusive + ((state[2] * maxExclusive) \div Half)) \div Half

buildDeck == [i \in 1..52 |-> i - 1]

RECURSIVE shuffleLoop(_, _, _)
shuffleLoop(deck, rng, i) ==
  IF i < 1 THEN deck
  ELSE LET drawn == rngNext(rng)
           j     == rngInt(drawn, i + 1)
       IN shuffleLoop([deck EXCEPT ![i + 1] = deck[j + 1], ![j + 1] = deck[i + 1]],
                      drawn, i - 1)

shuffleDeck(deck, rng) == shuffleLoop(deck, rng, Len(deck) - 1)

\* ---------------------------------------------------------------- actions

Ok(state) == [ok |-> TRUE, threw |-> FALSE, error |-> "", state |-> state]
\* An error value. `state` is the caller's HoldemState as the call leaves it: the
\* object passed in, whose bettingState is the object applyBettingAction was given.
Fail(state, error) == [ok |-> FALSE, threw |-> FALSE, error |-> error, state |-> state]
\* An exception leaving applyAction.
Threw(state, error) == [ok |-> FALSE, threw |-> TRUE, error |-> error, state |-> state]

\* Mutant of handDeck: the generator is seeded with the seed alone.
handDeckSeedOnly(state, nextHandNumber) ==
  IF state.usePresetDeck THEN state.deck
  ELSE shuffleDeck(buildDeck, rngSeed(state.seed))

handDeck(state, nextHandNumber) ==
  IF state.usePresetDeck THEN state.deck
  ELSE shuffleDeck(buildDeck, rngSeed(state.seed + nextHandNumber))

\* startHand moving the dealer to the next seat, with chips or not
startHandDealerNextSeat(state) ==
  LET playersWithChips == Filter(state.players, LAMBDA pl : pl.stack > 0)
      nextHandNumber   == state.handNumber + 1
      dealerSeatIndex  == IF nextHandNumber = 1 THEN 0
                          ELSE (state.dealerSeatIndex + 1) % Len(state.players)
      nextPlayers == [i \in DOMAIN state.players |->
                        [state.players[i] EXCEPT
                           !.folded = FALSE, !.allIn = FALSE,
                           !.isDealer = (i - 1 = dealerSeatIndex),
                           !.inHand = state.players[i].stack > 0]]
      shuffledDeck == handDeck(state, nextHandNumber)
      dealt == dealToPlayers(shuffledDeck, nextPlayers)
  IN IF Len(playersWithChips) < 2
     THEN Fail(state, "At least two players with chips are required to start a hand")
     ELSE IF dealToPlayersThrows(shuffledDeck, nextPlayers)
     THEN Threw(state, "Deck exhausted while dealing hole cards")
     ELSE Ok(setupPreflopBetting(
            [state EXCEPT
               !.phase = "hand_start",
               !.handNumber = nextHandNumber,
               !.dealerSeatIndex = dealerSeatIndex,
               !.players = nextPlayers,
               !.deck = dealt.deck,
               !.board = <<>>,
               !.holeCardsByPlayerId = dealt.holeCardsByPlayerId,
               !.bettingState = Null,
               !.pots = <<>>,
               !.showdown = Null,
               !.handContributionByPlayerId = [id \in Range(PlayerIds(nextPlayers)) |-> 0],
               !.actionLog = @ + 1]))

startHand(state) ==
  LET playersWithChips == Filter(state.players, LAMBDA pl : pl.stack > 0)
      nextHandNumber   == state.handNumber + 1
      dealerSeatIndex  == IF nextHandNumber = 1 THEN 0
                          ELSE findNextActiveSeat(state.players, state.dealerSeatIndex, TRUE)
      nextPlayers == [i \in DOMAIN state.players |->
                        [state.players[i] EXCEPT
                           !.folded = FALSE, !.allIn = FALSE,
                           !.isDealer = (i - 1 = dealerSeatIndex),
                           !.inHand = state.players[i].stack > 0]]
      shuffledDeck == handDeck(state, nextHandNumber)
      dealt == dealToPlayers(shuffledDeck, nextPlayers)
  IN IF Len(playersWithChips) < 2
     THEN Fail(state, "At least two players with chips are required to start a hand")
     ELSE IF dealToPlayersThrows(shuffledDeck, nextPlayers)
     THEN Threw(state, "Deck exhausted while dealing hole cards")
     ELSE Ok(setupPreflopBetting(
            [state EXCEPT
               !.phase = "hand_start",
               !.handNumber = nextHandNumber,
               !.dealerSeatIndex = dealerSeatIndex,
               !.players = nextPlayers,
               !.deck = dealt.deck,
               !.board = <<>>,
               !.holeCardsByPlayerId = dealt.holeCardsByPlayerId,
               !.bettingState = Null,
               !.pots = <<>>,
               !.showdown = Null,
               !.handContributionByPlayerId = [id \in Range(PlayerIds(nextPlayers)) |-> 0],
               !.actionLog = @ + 1]))

syncPlayersFromBetting(players, bettingState) ==
  [i \in DOMAIN players |->
     IF players[i].id \notin DOMAIN bettingState.stackByPlayerId THEN players[i]
     ELSE [players[i] EXCEPT
             !.stack  = bettingState.stackByPlayerId[players[i].id],
             !.folded = bettingState.foldedByPlayerId[players[i].id],
             !.allIn  = bettingState.allInByPlayerId[players[i].id]]]

\* Mutant of afterBettingAction: the whole round contribution is added, not the delta.
afterBettingActionAddsWhole(state, nextBettingState) ==
  LET syncedPlayers == syncPlayersFromBetting(state.players, nextBettingState)
      previousRoundContribution == state.bettingState.roundContributionByPlayerId
      delta(id) == Get(nextBettingState.roundContributionByPlayerId, id, 0)
                     - Get(previousRoundContribution, id, 0)
      handContributionByPlayerId ==
        [id \in DOMAIN state.handContributionByPlayerId \cup Range(PlayerIds(syncedPlayers)) |->
           IF id \in Range(PlayerIds(syncedPlayers)) /\ delta(id) > 0
           THEN Get(state.handContributionByPlayerId, id, 0)
                  + Get(nextBettingState.roundContributionByPlayerId, id, 0)
           ELSE state.handContributionByPlayerId[id]]
  IN [state EXCEPT
        !.players = syncedPlayers,
        !.bettingState = nextBettingState,
        !.pots = buildPots(handContributionByPlayerId, foldedFlags(syncedPlayers),
                           inHandIds(syncedPlayers)),
        !.handContributionByPlayerId = handContributionByPlayerId,
        !.actionLog = @ + 1]

\* The betting branch of applyAction (lines 694-736), for an accepted betting action.
afterBettingAction(state, nextBettingState) ==
  LET syncedPlayers == syncPlayersFromBetting(state.players, nextBettingState)
      previousRoundContribution == state.bettingState.roundContributionByPlayerId
      delta(id) == Get(nextBettingState.roundContributionByPlayerId, id, 0)
                     - Get(previousRoundContribution, id, 0)
      handContributionByPlayerId ==
        [id \in DOMAIN state.handContributionByPlayerId \cup Range(PlayerIds(syncedPlayers)) |->
           IF id \in Range(PlayerIds(syncedPlayers)) /\ delta(id) > 0
           THEN Get(state.handContributionByPlayerId, id, 0) + delta(id)
           ELSE state.handContributionByPlayerId[id]]
  IN [state EXCEPT
        !.players = syncedPlayers,
        !.bettingState = nextBettingState,
        !.pots = buildPots(handContributionByPlayerId, foldedFlags(syncedPlayers),
                           inHandIds(syncedPlayers)),
        !.handContributionByPlayerId = handContributionByPlayerId,
        !.actionLog = @ + 1]

\* advanceAfterRoundClosed as applyAction calls it: an exception leaves applyAction.
advanceResult(state, closed) ==
  IF advanceAfterRoundClosedThrows(closed)
  THEN Threw(state, "exception in advanceAfterRoundClosed")
  ELSE Ok(advanceAfterRoundClosed(closed))

\* Mutant of applyAction: START_HAND does not look at the phase.
applyActionStartInAnyPhase(state, playerId, action) ==
  IF playerId \notin Range(PlayerIds(state.players))
    THEN Fail(state, "Player is not seated at this table")
  ELSE IF action.type = "START_HAND"
    THEN (IF state.phase = "none"
          THEN Fail(state, "Hand can only be started from lobby or hand_end")
          ELSE startHand(state))
  ELSE IF action.type = "ADVANCE_PHASE" /\ state.phase = "showdown"
    THEN Ok([state EXCEPT !.phase = "hand_end", !.actionLog = @ + 1])
  ELSE IF action.type = "ADVANCE_PHASE"
            /\ ~(state.bettingState # Null /\ isRoundClosed(state.bettingState))
    THEN Fail(state, "Cannot advance phase right now")
  ELSE IF action.type # "ADVANCE_PHASE" /\ toBettingAction(action) = Null
    THEN Fail(state, "Unsupported action")
  ELSE IF action.type # "ADVANCE_PHASE" /\ state.bettingState = Null
    THEN Fail(state, "No active betting round")
  ELSE
    Bind(IF action.type = "ADVANCE_PHASE" THEN BettingOk(state.bettingState)
         ELSE applyBettingAction(state.bettingState, playerId, toBettingAction(action)),
         LAMBDA applied :
      IF ~applied.ok
      THEN Fail([state EXCEPT !.bettingState = applied.state], applied.error)
      ELSE Bind(IF action.type = "ADVANCE_PHASE"
                THEN [state EXCEPT !.actionLog = @ + 1]
                ELSE afterBettingAction(state, applied.state), LAMBDA nextState :
             IF isRoundClosed(applied.state) THEN advanceResult(state, nextState)
             ELSE Ok(nextState)))

\* applyAction accepting ADVANCE_PHASE whatever the betting round
applyActionAdvanceAnytime(state, playerId, action) ==
  IF playerId \notin Range(PlayerIds(state.players))
    THEN Fail(state, "Player is not seated at this table")
  ELSE IF action.type = "START_HAND"
    THEN (IF state.phase # "lobby" /\ state.phase # "hand_end"
          THEN Fail(state, "Hand can only be started from lobby or hand_end")
          ELSE startHand(state))
  ELSE IF action.type = "ADVANCE_PHASE" /\ state.phase = "showdown"
    THEN Ok([state EXCEPT !.phase = "hand_end", !.actionLog = @ + 1])
  ELSE IF action.type = "ADVANCE_PHASE"
            /\ ~(state.bettingState # Null /\ isRoundClosed(state.bettingState))
    THEN Ok([state EXCEPT !.actionLog = @ + 1])
  ELSE IF action.type # "ADVANCE_PHASE" /\ toBettingAction(action) = Null
    THEN Fail(state, "Unsupported action")
  ELSE IF action.type # "ADVANCE_PHASE" /\ state.bettingState = Null
    THEN Fail(state, "No active betting round")
  ELSE
    Bind(IF action.type = "ADVANCE_PHASE" THEN BettingOk(state.bettingState)
         ELSE applyBettingAction(state.bettingState, playerId, toBettingAction(action)),
         LAMBDA applied :
      IF ~applied.ok
      THEN Fail([state EXCEPT !.bettingState = applied.state], applied.error)
      ELSE Bind(IF action.type = "ADVANCE_PHASE"
                THEN [state EXCEPT !.actionLog = @ + 1]
                ELSE afterBettingAction(state, applied.state), LAMBDA nextState :
             IF isRoundClosed(applied.state) THEN advanceResult(state, nextState)
             ELSE Ok(nextState)))

applyAction(state, playerId, action) ==
  IF playerId \notin Range(PlayerIds(state.players))
    THEN Fail(state, "Player is not seated at this table")
  ELSE IF action.type = "START_HAND"
    THEN (IF state.phase # "lobby" /\ state.phase # "hand_end"
          THEN Fail(state, "Hand can only be started from lobby or hand_end")
          ELSE startHand(state))
  ELSE IF action.type = "ADVANCE_PHASE" /\ state.phase = "showdown"
    THEN Ok([state EXCEPT !.phase = "hand_end", !.actionLog = @ + 1])
  ELSE IF action.type = "ADVANCE_PHASE"
            /\ ~(state.bettingState # Null /\ isRoundClosed(state.bettingState))
    THEN Fail(state, "Cannot advance phase right now")
  ELSE IF action.type # "ADVANCE_PHASE" /\ toBettingAction(action) = Null
    THEN Fail(state, "Unsupported action")
  ELSE IF action.type # "ADVANCE_PHASE" /\ state.bettingState = Null
    THEN Fail(state, "No active betting round")
  ELSE
    Bind(IF action.type = "ADVANCE_PHASE" THEN BettingOk(state.bettingState)
         ELSE applyBettingAction(state.bettingState, playerId, toBettingAction(action)),
         LAMBDA applied :
      IF ~applied.ok
      THEN Fail([state EXCEPT !.bettingState = applied.state], applied.error)
      ELSE Bind(IF action.type = "ADVANCE_PHASE"
                THEN [state EXCEPT !.actionLog = @ + 1]
                ELSE afterBettingAction(state, applied.state), LAMBDA nextState :
             IF isRoundClosed(applied.state) THEN advanceResult(state, nextState)
             ELSE Ok(nextState)))

\* options is a record holding any of seed, initialStack, smallBlind, bigBlind, testDeck
createInitialState(players, options) ==
  [phase         |-> "lobby",
   seed          |-> Get(options, "seed", 1),
   handNumber    |-> 0,
   players       |-> [i \in DOMAIN players |->
                        [id |-> players[i], seatIndex |-> i - 1,
                         stack |-> Get(options, "initialStack", 1000),
                         folded |-> FALSE, allIn |-> FALSE,
                         isDealer |-> (i - 1 = 0), inHand |-> TRUE]],
   deck          |-> Get(options, "testDeck", buildDeck),
   board         |-> <<>>,
   holeCardsByPlayerId |-> [id \in Range(players) |-> <<>>],
   dealerSeatIndex |-> 0,
   smallBlind    |-> Get(options, "smallBlind", 5),
   bigBlind      |-> Get(options, "bigBlind", 10),
   bettingState  |-> Null,
   pots          |-> <<>>,
   actionLog     |-> 0,
   showdown      |-> Null,
   handContributionByPlayerId |-> [id \in Range(players) |-> 0],
   usePresetDeck |-> "testDeck" \in DOMAIN options]

\* Mutant of getPublicView: the view also carries the hole cards of every seat.
getPublicViewWithHoleCards(state) ==
  [phase      |-> state.phase,
   handNumber |-> state.handNumber,
   board      |-> state.board,
   players    |-> state.players,
   holeCardsByPlayerId |-> state.holeCardsByPlayerId,
   pots       |-> state.pots,
   activePlayerId |-> IF state.bettingState = Null THEN NoPlayer
                      ELSE state.bettingState.activePlayerId,
   actionLog  |-> state.actionLog]

getPublicView(state) ==
  [phase      |-> state.phase,
   handNumber |-> state.handNumber,
   board      |-> state.board,
   players    |-> [i \in DOMAIN state.players |->
                     [id |-> state.players[i].id, seatIndex |-> state.players[i].seatIndex,
                      stack |-> state.players[i].stack, folded |-> state.players[i].folded,
                      allIn |-> state.players[i].allIn, isDealer |-> state.players[i].isDealer,
                      inHand |-> state.players[i].inHand]],
   pots       |-> state.pots,
   activePlayerId |-> IF state.bettingState = Null THEN NoPlayer
                      ELSE state.bettingState.activePlayerId,
   actionLog  |-> state.actionLog]

\* { ...publicView, playerId, holeCards, availableActions }
getPlayerView(state, playerId) ==
  [playerId  |-> playerId,
   holeCards |-> Get(state.holeCardsByPlayerId, playerId, <<>>),
   availableActions |-> IF state.bettingState # Null
                        THEN getAvailableActions(state.bettingState, playerId) ELSE Null]
    @@ getPublicView(state)

isGameOver(state) == Len(Filter(state.players, LAMBDA pl : pl.stack > 0)) <= 1


getResult(state) ==
  IF state.showdown = Null
  THEN (IF ~isGameOver(state) THEN Null
        ELSE LET best == CHOOSE i \in DOMAIN state.players :
                           /\ \A j \in DOMAIN state.players :
                                state.players[i].stack >= state.players[j].stack
                           /\ \A j \in 1..(i - 1) :
                                state.players[j].stack < state.players[i].stack
             IN [winners |-> <<state.players[best].id>>, summary |-> "wins by chip lead"])
  ELSE [winners |-> state.showdown.winners, summary |-> state.showdown.summary]

\* ------------------------------------------------------------------- state

VARIABLES
  hs,              \* the HoldemState a table holds
  handStartChips,  \* history: the sum of the stacks when the current hand started
  last,            \* history: how the latest call ended ("ok", "error", "threw")
                   \* (in the mediator: "game:state" after an answered game:state)
  bs,              \* the BettingState of a betting round driven on its own
  called,          \* history: the seats that called the current bet in full
  barred,          \* history: the seats a short all-in raise found in `called`
  acted,           \* history: the seats that acted since the last full bet or raise
  tables,          \* the Map tables: table id -> its players in insertion order
  socketPlayers,   \* the Map socketPlayers: socket id -> [tableId, playerId]
  rooms,           \* the sockets that are members of the table room
  gameStates,      \* gameStates.get(tableId), Null when absent
  connected,       \* per socket: "connected" or "closed"
  pending,         \* per socket, the handlers suspended at `await socket.join`
  outbox,          \* the game views the latest handler delivered
  registered,      \* history: <<socket, player>> pairs that table:join registered
  arg,             \* the arguments of a function called on its own
  out              \* what that call returned, Null before the call

holdemVars   == <<hs, handStartChips>>
bettingVars  == <<bs, called, barred, acted>>
mediatorVars == <<tables, socketPlayers, rooms, gameStates, connected, pending,
                  outbox, registered>>
callVars     == <<arg, out>>
vars == <<hs, handStartChips, last, bs, called, barred, acted, tables, socketPlayers, rooms,
          gameStates, connected, pending, outbox, registered, arg, out>>

\* ------------------------------------------------------------ input domains

\* Largest bet.amount / raise.toAmount submitted (all_in reaches past it).
MaxBet == 5

SeatNames == <<"p1", "p2", "p3", "p4">>
Seated(n) == SubSeq(SeatNames, 1, n)

\* The options a table is created with: a seeded shuffle or the canonical deck as
\* a preset; a stack of InitialStack, or of one chip (the blinds put both seats all-in).
OptionChoices(n) ==
  {[seed |-> 7, initialStack |-> InitialStack, smallBlind |-> SmallBlind, bigBlind |-> BigBlind],
   [initialStack |-> InitialStack, smallBlind |-> SmallBlind, bigBlind |-> BigBlind,
    testDeck |-> buildDeck]}
  \cup
  (IF n = 2
   THEN {[seed |-> 7, initialStack |-> 1, smallBlind |-> SmallBlind, bigBlind |-> BigBlind]}
   ELSE {})

\* Every action type the module knows, one it does not, and amounts from 0.
ActionInputs ==
  {[type |-> t, amount |-> 0] :
     t \in {"START_HAND", "ADVANCE_PHASE", "fold", "check", "call", "all_in", "sit_out"}}
  \cup {[type |-> t, amount |-> a] : t \in {"bet", "raise"}, a \in 0..MaxBet}

\* The seated ids and one id that is not seated.
PlayerInputs(state) == Range(PlayerIds(state.players)) \cup {"px"}

SumStacks(state) == SumSeq([i \in DOMAIN state.players |-> state.players[i].stack])
SumPots(state) == SumSeq([i \in DOMAIN state.pots |-> state.pots[i].amount])

\* The variables of a specification that does not use them.
NoTable    == hs = Null /\ handStartChips = 0
NoRound    == bs = Null /\ called = {} /\ barred = {} /\ acted = {}
NoCall     == arg = Null /\ out = Null
NoMediator ==
  /\ tables = <<>> /\ socketPlayers = <<>> /\ rooms = {} /\ gameStates = Null
  /\ connected = <<>> /\ pending = <<>> /\ outbox = {} /\ registered = {}

\* ------------------------------------------- specification of a Hold'em table

Init ==
  /\ \E n \in 2..MaxSeats : \E options \in OptionChoices(n) :
       hs = createInitialState(Seated(n), options)
  /\ handStartChips = 0
  /\ last = "none"
  /\ NoRound /\ NoMediator /\ NoCall

\* The number of hands explored at a table: MaxHands heads-up, MaxHandsMultiway
\* with three seats or more.
HandCap(state) == IF Len(state.players) = 2 THEN MaxHands ELSE MaxHandsMultiway

\* applyAction returned a new state: the caller keeps it.
Accept(action, result) ==
  /\ action.type = "START_HAND" => hs.handNumber < HandCap(hs)
  /\ result.ok
  /\ hs' = result.state
  /\ handStartChips' = IF action.type = "START_HAND" THEN SumStacks(hs) ELSE handStartChips
  /\ last' = "ok"

\* applyAction returned an error value: the caller is left with the state it passed.
Reject(result) ==
  /\ ~result.ok /\ ~result.threw
  /\ hs' = result.state
  /\ last' = "error"
  /\ UNCHANGED handStartChips

\* applyAction threw: the caller is left with the state it passed.
Throw(result) ==
  /\ result.threw
  /\ hs' = result.state
  /\ last' = "threw"
  /\ UNCHANGED handStartChips

Next ==
  /\ \E playerId \in PlayerInputs(hs), action \in ActionInputs :
       \E result \in {applyAction(hs, playerId, action)} :
          \/ Accept(action, result)
          \/ Reject(result)
          \/ Throw(result)
  /\ UNCHANGED <<bettingVars, mediatorVars, callVars>>

Spec == Init /\ [][Next]_vars

\* ------------------------------------------------------------ C1 conservation

\* The chips the showdown of the current hand has credited to stacks.
Awarded(state) ==
  IF state.showdown = Null THEN 0
  ELSE SumFun(state.showdown.awardedByPlayerId, DOMAIN state.showdown.awardedByPlayerId)

\* The chips contributed in the current hand that no pot of state.pots holds.
Unsettled(state) ==
  SumFun(state.handContributionByPlayerId, DOMAIN state.handContributionByPlayerId)
    - SumPots(state)

\* C1 as stated: in every state of a hand, the stacks plus the pots plus the round
\* contributions not yet settled into a pot add up to the stacks at the start of
\* the hand.
C1_ConservationAsStated ==
  hs.handNumber >= 1 =>
    SumStacks(hs) + SumPots(hs) + Unsettled(hs) = handStartChips

\* C1, amended: in every state of a hand, the stacks plus the pots, less the chips
\* the showdown has already credited to stacks (the pot list is kept after the
\* award), add up to the stacks at the start of the hand; no contribution is ever
\* outside the pots.
C1_Conservation ==
  hs.handNumber >= 1 =>
    /\ Unsettled(hs) = 0
    /\ SumStacks(hs) + SumPots(hs) - Awarded(hs) = handStartChips

\* A hand that ended with a showdown that moved chips from the pots to a stack.
C1_Witness ==
  /\ hs.phase = "hand_end"
  /\ hs.showdown # Null
  /\ Awarded(hs) > 0
  /\ Len(hs.pots) > 0

\* ----------------------------------------------------------- C2 view privacy

\* States that differ from `state` only in what seat q must not see: the hole
\* cards of every other seat and the remaining deck.
HiddenVariants(state, q) ==
  {[state EXCEPT
      !.deck = d,
      !.holeCardsByPlayerId =
         [id \in DOMAIN state.holeCardsByPlayerId |->
            IF id = q THEN state.holeCardsByPlayerId[id] ELSE h]] :
     d \in {<<>>, <<0>>}, h \in {<<>>, <<51, 50>>}}

\* C2: the public view does not depend on any hole card nor on the remaining
\* deck, and the player view of seat q depends on no hole card but q's own and not
\* on the deck: states that differ only there give the same views, and the
\* holeCards of q's view are q's.
C2_ViewPrivacy ==
  /\ \A v \in HiddenVariants(hs, "px") : getPublicView(v) = getPublicView(hs)
  /\ \A q \in Range(PlayerIds(hs.players)) :
       /\ \A v \in HiddenVariants(hs, q) : getPlayerView(v, q) = getPlayerView(hs, q)
       /\ getPlayerView(hs, q).holeCards = hs.holeCardsByPlayerId[q]

\* Two seats hold different hole cards, cards remain in the deck, and the variants
\* do differ from the state in what they hide.
C2_Witness ==
  /\ hs.phase = "flop"
  /\ hs.deck # <<>>
  /\ \E p, q \in Range(PlayerIds(hs.players)) :
       /\ p # q
       /\ Len(hs.holeCardsByPlayerId[p]) = 2 /\ Len(hs.holeCardsByPlayerId[q]) = 2
       /\ hs.holeCardsByPlayerId[p] # hs.holeCardsByPlayerId[q]
       /\ \A v \in HiddenVariants(hs, q) : v # hs

\* ------------------------------------------------- C4 failures keep the state

\* C4: a call of applyAction that returns an error leaves the HoldemState as it
\* was, the nested BettingState handed to applyBettingAction included.
C4_FailuresKeepState == [][last' = "error" => hs' = hs]_vars

\* A call was rejected while a betting round was open.
C4_Witness ==
  /\ last = "error"
  /\ hs.bettingState # Null
  /\ ~hs.bettingState.roundClosed

\* ------------------------------------------------------- C5 no call throws

\* C5: no call of applyAction on a reachable state throws.
C5_NeverThrows == last # "threw"

\* ------------------------------------------------- C6 ended hands are settled

\* C6: a hand that has ended has a populated showdown result whose awards add up
\* to the pots of the hand.
C6_EndedHandsAreSettled ==
  (hs.phase = "hand_end" /\ hs.handNumber >= 1) =>
    /\ hs.showdown # Null
    /\ Awarded(hs) = SumPots(hs)

\* ------------------------------------------------ C7 fold-out short-circuit

BettingPhases == {"preflop", "flop", "turn", "river"}

\* The seats a fold of the active seat would leave with exactly one seat not folded.
FoldOutSeats(state) ==
  {p \in Range(PlayerIds(state.players)) :
     /\ state.phase \in BettingPhases
     /\ state.bettingState # Null
     /\ state.bettingState.activePlayerId = p
     /\ Len(activeInHandPlayers(state.players)) = 2}

\* What the short-circuit promises of the fold of seat p: the hand is over, the
\* board is as it was, no round is open and the seat left is the only winner.
ShortCircuits(state, p) ==
  \E result \in {applyAction(state, p, [type |-> "fold", amount |-> 0])} :
     /\ result.ok
     /\ result.state.phase = "hand_end"
     /\ result.state.board = state.board
     /\ result.state.bettingState = Null
     /\ result.state.showdown # Null
     /\ \E q \in Range(PlayerIds(activeInHandPlayers(state.players))) :
          q # p /\ result.state.showdown.winners = <<q>>

\* C7: in every betting phase, the fold that leaves one seat not folded takes the
\* hand to hand_end with the board unchanged and that seat as the only winner.
C7_FoldOutShortCircuit == \A p \in FoldOutSeats(hs) : ShortCircuits(hs, p)

\* ------------------------------------------------------- C8 heads-up blinds

\* A heads-up hand right after START_HAND: the blinds are the whole log of the
\* round and both seats could pay theirs in full.
HeadsUpJustStarted(state) ==
  /\ state.phase = "preflop"
  /\ state.bettingState # Null
  /\ state.bettingState.actionLog = 2
  /\ Len(Filter(state.players, LAMBDA pl : pl.inHand)) = 2
  /\ \A i \in DOMAIN state.players :
       state.players[i].inHand =>
         state.players[i].stack + state.handContributionByPlayerId[state.players[i].id]
           >= state.bigBlind

\* C8: heads-up, the dealer has posted the small blind and is the first to act,
\* and the other seat has posted the big blind.
C8_HeadsUpDealerPostsSmallBlind ==
  HeadsUpJustStarted(hs) =>
    \E dealer \in {hs.players[hs.dealerSeatIndex + 1].id} :
       /\ hs.bettingState.roundContributionByPlayerId[dealer] = hs.smallBlind
       /\ hs.bettingState.activePlayerId = dealer
       /\ \A other \in DOMAIN hs.bettingState.roundContributionByPlayerId \ {dealer} :
            hs.bettingState.roundContributionByPlayerId[other] = hs.bigBlind

\* ------------------------------------------ specification of a betting round

\* The stacks seats bring to a round: less than a blind, between the big blind
\* and a minimum raise over it, and deep.
StackChoices == {1, 3, MaxStack}

\* The two shapes of config the Hold'em module builds (lines 185-207 and 249-262):
\* a preflop round with the blinds on the first two seats, and a later round
\* with no forced bet; the first seat to act is named or left to the engine.
StackRows == UNION {[1..m -> StackChoices] : m \in 2..MaxSeats}

PreflopRound(stacks) ==
  [phase |-> "preflop",
   seats |-> [i \in DOMAIN stacks |-> [playerId |-> SeatNames[i], stack |-> stacks[i]]],
   forcedBets |-> <<[playerId |-> SeatNames[1], amount |-> SmallBlind],
                    [playerId |-> SeatNames[2], amount |-> BigBlind]>>,
   firstToActPlayerId |-> SeatNames[(2 % Len(stacks)) + 1],
   minOpenBet |-> BigBlind]

LaterRound(stacks, first) ==
  [phase |-> "flop",
   seats |-> [i \in DOMAIN stacks |-> [playerId |-> SeatNames[i], stack |-> stacks[i]]],
   forcedBets |-> <<>>,
   firstToActPlayerId |-> first,
   minOpenBet |-> BigBlind]

BettingConfigs ==
  {PreflopRound(stacks) : stacks \in StackRows}
  \cup {LaterRound(stacks, first) : stacks \in StackRows, first \in {SeatNames[1], NoPlayer}}

\* Every BettingAction, with amounts from 1.
BettingInputs ==
  {[type |-> t, amount |-> 0] : t \in {"fold", "check", "call", "all_in"}}
  \cup {[type |-> t, amount |-> a] : t \in {"bet", "raise"}, a \in 1..MaxBet}

InitBetting ==
  /\ \E config \in BettingConfigs : bs = createBettingState(config)
  /\ called = {}
  /\ barred = {}
  /\ acted = {}
  /\ last = "none"
  /\ NoTable /\ NoMediator /\ NoCall

\* applyBettingAction returned a new state. The history keeps who has called the
\* current bet in full, whom a raise of less than minRaiseIncrement found so,
\* and who has acted since the last bet or raise of minRaiseIncrement or more.
BetAccept(playerId, result) ==
  /\ result.ok
  /\ bs' = result.state
  /\ last' = "ok"
  /\ IF result.state.currentBet > bs.currentBet /\ bs.currentBet > 0
          /\ result.state.currentBet - bs.currentBet < bs.minRaiseIncrement
       THEN barred' = (barred \cup called) \ {playerId} /\ called' = called \ {playerId}
     ELSE IF result.state.currentBet > bs.currentBet
       THEN barred' = {} /\ called' = {}
     ELSE IF /\ result.state.roundContributionByPlayerId[playerId]
                  > bs.roundContributionByPlayerId[playerId]
             /\ result.state.roundContributionByPlayerId[playerId] = bs.currentBet
       THEN called' = called \cup {playerId} /\ UNCHANGED barred
     ELSE IF result.state.foldedByPlayerId[playerId]
       THEN called' = called \ {playerId} /\ barred' = barred \ {playerId}
     ELSE UNCHANGED <<called, barred>>
  /\ acted' = IF /\ result.state.currentBet > bs.currentBet
                 /\ result.state.currentBet - bs.currentBet >= bs.minRaiseIncrement
              THEN {playerId}
              ELSE acted \cup {playerId}

\* applyBettingAction returned an error value.
BetReject(result) ==
  /\ ~result.ok
  /\ bs' = result.state
  /\ last' = "error"
  /\ UNCHANGED <<called, barred, acted>>

NextBetting ==
  /\ \E playerId \in Range(bs.seatOrder) \cup {"px"}, action \in BettingInputs :
       \E result \in {applyBettingAction(bs, playerId, action)} :
          \/ BetAccept(playerId, result)
          \/ BetReject(result)
  /\ UNCHANGED <<holdemVars, mediatorVars, callVars>>

SpecBetting == InitBetting /\ [][NextBetting]_vars

\* ------------------------------------- C9 a short all-in does not reopen

\* C9: a seat that had called the bet in full when another seat raised all-in by
\* less than minRaiseIncrement may fold or call, and every raise it submits is
\* rejected until a full raise reopens the action.
C9_ShortAllInDoesNotReopen ==
  \A q \in barred : \A a \in 1..MaxBet :
     ~applyBettingAction(bs, q, [type |-> "raise", amount |-> a]).ok

\* ------------------------------------------------------ C10 turn enforcement

\* C10: every betting action of a seat that is not the active one, and every
\* betting action once the round is closed, is rejected and leaves the
\* BettingState as it was.
C10_TurnEnforcement ==
  \A playerId \in Range(bs.seatOrder) \cup {"px"}, action \in BettingInputs :
     (playerId # bs.activePlayerId \/ bs.roundClosed) =>
        \E result \in {applyBettingAction(bs, playerId, action)} :
           /\ ~result.ok
           /\ result.state = bs

\* A round in progress where a seat other than the active one could act if it
\* were its turn: it has chips, has not folded and owes a call.
C10_Witness ==
  /\ ~bs.roundClosed
  /\ last = "ok"
  /\ \E p \in Range(bs.seatOrder) :
       /\ p # bs.activePlayerId
       /\ canStillAct(bs, p)
       /\ bs.roundContributionByPlayerId[p] < bs.currentBet

\* ---------------------------------------------------------- C11 illegal check

\* What the active seat owes to match the bet (callAmount of applyBettingAction).
OwedByActive ==
  Max(0, bs.currentBet - bs.roundContributionByPlayerId[bs.activePlayerId])

\* C11: while the round is open, a check by the active seat is accepted exactly
\* when that seat owes nothing (callAmount = 0); when its round contribution is
\* below currentBet the check is rejected with the error "Cannot check when
\* facing a bet" and the BettingState is unchanged.
C11_IllegalCheck ==
  (~bs.roundClosed /\ bs.activePlayerId # NoPlayer) =>
     \E result \in {applyBettingAction(bs, bs.activePlayerId, [type |-> "check", amount |-> 0])} :
        /\ result.ok <=> OwedByActive = 0
        /\ OwedByActive > 0 =>
             /\ result.error = "Cannot check when facing a bet"
             /\ result.state = bs

\* The active seat faces a bet it has not matched, after a check of it was
\* rejected: the state is the one before the check.
C11_Witness ==
  /\ ~bs.roundClosed /\ bs.activePlayerId # NoPlayer
  /\ OwedByActive > 0
  /\ last = "error"
  /\ ~applyBettingAction(bs, bs.activePlayerId, [type |-> "check", amount |-> 0]).ok

\* ------------------------------------------------------ C12 minimum raise

\* A raise of the active seat to T, and the chips it would cost the seat.
RaiseTo(T) == applyBettingAction(bs, bs.activePlayerId, [type |-> "raise", amount |-> T])
RaiseCost(T) == T - bs.roundContributionByPlayerId[bs.activePlayerId]

\* C12: facing a bet, a raise to T that would leave the seat chips is rejected
\* when T - currentBet < minRaiseIncrement; an accepted raise of at least
\* minRaiseIncrement sets currentBet to T and minRaiseIncrement to
\* T - (previous currentBet); an accepted raise below the minimum is all-in,
\* sets currentBet to T and leaves minRaiseIncrement as it was. Whatever the
\* action of whatever seat, minRaiseIncrement changes only when the action is
\* accepted and lifts currentBet by at least the previous minRaiseIncrement,
\* and then it becomes that lift.
C12_MinimumRaise ==
  /\ (~bs.roundClosed /\ bs.activePlayerId # NoPlayer /\ bs.currentBet > 0) =>
       \A T \in 1..(MaxBet + MaxStack) :
          \E result \in {RaiseTo(T)} :
             /\ (RaiseCost(T) < bs.stackByPlayerId[bs.activePlayerId]
                   /\ T - bs.currentBet < bs.minRaiseIncrement) => ~result.ok
             /\ (result.ok /\ T - bs.currentBet >= bs.minRaiseIncrement) =>
                   /\ result.state.currentBet = T
                   /\ result.state.minRaiseIncrement = T - bs.currentBet
             /\ (result.ok /\ T - bs.currentBet < bs.minRaiseIncrement) =>
                   /\ result.state.stackByPlayerId[bs.activePlayerId] = 0
                   /\ result.state.allInByPlayerId[bs.activePlayerId]
                   /\ result.state.currentBet = T
                   /\ result.state.minRaiseIncrement = bs.minRaiseIncrement
  /\ \A playerId \in Range(bs.seatOrder), action \in BettingInputs :
       \E result \in {applyBettingAction(bs, playerId, action)} :
          result.state.minRaiseIncrement # bs.minRaiseIncrement =>
             /\ result.ok
             /\ result.state.currentBet - bs.currentBet >= bs.minRaiseIncrement
             /\ result.state.minRaiseIncrement = result.state.currentBet - bs.currentBet

\* The active seat faces a bet and can raise all-in by less than the minimum;
\* once it has, the next seat to act can afford a raise that is too small,
\* which is rejected, and a full raise, which is accepted.
C12_Witness ==
  /\ ~bs.roundClosed /\ bs.activePlayerId # NoPlayer /\ bs.currentBet > 0
  /\ last = "ok"
  /\ \E T \in 1..(MaxBet + MaxStack) :
       /\ T - bs.currentBet < bs.minRaiseIncrement
       /\ \E short \in {RaiseTo(T)} :
            /\ short.ok
            /\ ~short.state.roundClosed
            /\ \E q \in {short.state.activePlayerId} :
                 /\ /\ T + 1 - short.state.roundContributionByPlayerId[q]
                         < short.state.stackByPlayerId[q]
                    /\ T + 1 - T < short.state.minRaiseIncrement
                    /\ ~applyBettingAction(short.state, q,
                                           [type |-> "raise", amount |-> T + 1]).ok
                 /\ applyBettingAction(short.state, q,
                       [type |-> "raise", amount |-> T + short.state.minRaiseIncrement]).ok

\* ------------------------------------------------------- C14 pot award rule

\* The seats that reached the showdown: in the hand and not folded.
ShowdownSeats(state) ==
  {state.players[i].id : i \in {j \in DOMAIN state.players :
                                  state.players[j].inHand /\ ~state.players[j].folded}}

\* The winners of a pot by the rule: eligible, at the showdown, and with a
\* score no contender of the pot beats.
PotWinners(state, pot) ==
  LET contenders == Range(pot.eligiblePlayerIds) \cap ShowdownSeats(state)
      score(p)   == state.showdown.handScoreByPlayerId[p].scoreVector
  IN {p \in contenders : \A q \in contenders : compareScoreVectors(score(p), score(q)) >= 0}

\* What the rule gives seat p from a pot.
PotShare(state, pot, p) ==
  LET winners == PotWinners(state, pot)
      k       == Cardinality(winners)
      ahead   == Cardinality({w \in winners :
                                seatIndexOf(state.players, w) < seatIndexOf(state.players, p)})
  IN IF p \notin winners THEN 0
     ELSE (pot.amount \div k) + (IF ahead < pot.amount % k THEN 1 ELSE 0)

\* C14: at the showdown every pot is paid, and only to seats eligible for it,
\* not folded and holding the best score among its contenders; k winners get
\* floor(amount / k) each and the amount mod k remaining chips go one each to
\* the winners of lowest seat index, so each pot is paid out exactly; the
\* chips awarded to a seat are the sum of its shares.
C14_PotAwardRule ==
  (hs.phase = "hand_end" /\ hs.showdown # Null) =>
    /\ DOMAIN hs.showdown.handScoreByPlayerId = ShowdownSeats(hs)
    /\ \A i \in DOMAIN hs.pots :
         /\ PotWinners(hs, hs.pots[i]) # {}
         /\ SumFun([p \in ShowdownSeats(hs) |-> PotShare(hs, hs.pots[i], p)],
                   ShowdownSeats(hs)) = hs.pots[i].amount
    /\ \A p \in Range(PlayerIds(hs.players)) :
         Get(hs.showdown.awardedByPlayerId, p, 0)
           = SumSeq([i \in DOMAIN hs.pots |-> PotShare(hs, hs.pots[i], p)])

\* --------------------------------------------------------- C18 START_HAND gating

\* The seats of `state` that have chips.
SeatsWithChips(state) == {i \in DOMAIN state.players : state.players[i].stack > 0}

StartHandAction == [type |-> "START_HAND", amount |-> 0]

C19_DealSizes ==
  [][hs'.handNumber # hs.handNumber =>
       /\ hs'.phase = "preflop"
       /\ hs'.handNumber = hs.handNumber + 1
       /\ \A i \in DOMAIN hs'.players :
            /\ hs'.players[i].inHand <=> i \in SeatsWithChips(hs)
            /\ Len(hs'.holeCardsByPlayerId[hs'.players[i].id])
                 = IF hs'.players[i].inHand THEN 2 ELSE 0
       /\ hs'.board = <<>>
       /\ Len(hs'.deck) = 52 - 2 * Cardinality(SeatsWithChips(hs))
    ]_vars

\* -------------------------------------------------------- C20 deterministic deal

\* The deck of the current hand in the order it was dealt from: the first hole
\* card of every seat in the hand in seat order, the second ones, the board,
\* and what is left.
DealtOrder(state) ==
  LET inHand == inHandIds(state.players)
  IN [k \in DOMAIN inHand |-> state.holeCardsByPlayerId[inHand[k]][1]]
       \o [k \in DOMAIN inHand |-> state.holeCardsByPlayerId[inHand[k]][2]]
       \o state.board \o state.deck

\* One step of the generator on a state small enough for plain integers.
LcgStep(x) == 1664525 * x + 1013904223

\* C20: deterministic deal. At a table without a preset deck, in every state
\* of every hand, whatever the stacks, folds and actions that led to it, the
\* cards dealt and the cards left are, in order, the canonical deck shuffled by
\* the generator seeded with seed + handNumber; and the first step of that
\* generator is state' = (1664525 * state + 1013904223) mod 2^32.
C20_DeterministicDeal ==
  (hs.handNumber >= 1 /\ ~hs.usePresetDeck) =>
    /\ DealtOrder(hs) = shuffleDeck(buildDeck, rngSeed(hs.seed + hs.handNumber))
    /\ rngNext(rngSeed(hs.seed + hs.handNumber))
         = <<(LcgStep(hs.seed + hs.handNumber) \div Half) % Half,
             LcgStep(hs.seed + hs.handNumber) % Half>>

\* The second hand of a shuffled table, after a first hand that moved chips,
\* with board cards dealt.
C20_Witness ==
  /\ hs.handNumber = 2
  /\ ~hs.usePresetDeck
  /\ hs.board # <<>>
  /\ \E i \in DOMAIN hs.players : hs.players[i].stack > InitialStack
  /\ DealtOrder(hs) # shuffleDeck(buildDeck, rngSeed(hs.seed + 1))

\* ------------------------------------------------- C22 active-player invariant

\* C22: the active-player invariant. In every state of a betting round,
\* activePlayerId is null exactly when the round is closed, and an active
\* player is a seat of the round that has not folded, is not all-in, has a
\* positive stack and still needs action (it owes chips to the current bet or
\* has not acted since the bet was last raised).
C22_ActivePlayer ==
  /\ bs.activePlayerId = NoPlayer <=> bs.roundClosed
  /\ bs.activePlayerId # NoPlayer =>
       /\ bs.activePlayerId \in Range(bs.seatOrder)
       /\ ~bs.foldedByPlayerId[bs.activePlayerId]
       /\ ~bs.allInByPlayerId[bs.activePlayerId]
       /\ bs.stackByPlayerId[bs.activePlayerId] > 0
       /\ \/ bs.roundContributionByPlayerId[bs.activePlayerId] < bs.currentBet
          \/ ~bs.hasActedByPlayerId[bs.activePlayerId]

\* After an accepted action, one seat has folded, one is all-in, and the turn
\* is on the third, which owes chips to the current bet.
C22_Witness ==
  /\ last = "ok"
  /\ bs.activePlayerId # NoPlayer
  /\ \E p \in Range(bs.seatOrder) : bs.foldedByPlayerId[p]
  /\ \E p \in Range(bs.seatOrder) : bs.allInByPlayerId[p] /\ ~bs.foldedByPlayerId[p]
  /\ bs.roundContributionByPlayerId[bs.activePlayerId] < bs.currentBet

\* ------------------------------------------------------------ C23 flag invariant

\* C23: the flag invariant. In every state of a hand, for every seat in the
\* hand, folded implies not all-in, and the seat is all-in exactly when its
\* stack is 0 and its contribution to the hand is positive.
C23_FlagInvariant ==
  hs.handNumber >= 1 =>
    \A i \in DOMAIN hs.players :
      hs.players[i].inHand =>
        /\ hs.players[i].folded => ~hs.players[i].allIn
        /\ hs.players[i].allIn <=>
             (/\ hs.players[i].stack = 0
              /\ hs.handContributionByPlayerId[hs.players[i].id] > 0)

\* -------------------------------------------------------- C24 contribution bounds

\* C24: contribution bounds. In every state, for every seat, 0 <= its
\* contribution to the betting round <= its contribution to the hand, and its
\* stack is never negative; START_HAND leaves stack + contribution equal to
\* the stack the seat had before it, and within a hand every step keeps
\* stack + contribution as it was until the pots are awarded, the
\* contribution never shrinking: so the contribution to the hand never
\* exceeds the stack the seat had at the start of the hand.
C24_ContributionBounds ==
  [][\A i \in DOMAIN hs'.players :
       \E id \in {hs'.players[i].id} :
          /\ hs'.players[i].stack >= 0
          /\ hs'.bettingState # Null =>
               \A p \in DOMAIN hs'.bettingState.roundContributionByPlayerId :
                  /\ 0 <= hs'.bettingState.roundContributionByPlayerId[p]
                  /\ hs'.bettingState.roundContributionByPlayerId[p]
                       <= hs'.handContributionByPlayerId[p]
          /\ hs'.handContributionByPlayerId[id] >= 0
          /\ IF hs'.handNumber # hs.handNumber
             THEN hs'.players[i].stack + hs'.handContributionByPlayerId[id]
                    = hs.players[i].stack
             ELSE /\ hs'.handContributionByPlayerId[id] >= hs.handContributionByPlayerId[id]
                  /\ hs'.showdown = Null =>
                       hs'.players[i].stack + hs'.handContributionByPlayerId[id]
                         = hs.players[i].stack + hs.handContributionByPlayerId[id]
    ]_vars

\* On a later street a seat has put chips into the round on top of what it
\* paid on earlier streets, and another seat has its whole stack in the hand.
C24_Witness ==
  /\ last = "ok"
  /\ hs.bettingState # Null
  /\ hs.phase \in {"flop", "turn", "river"}
  /\ \E p \in DOMAIN hs.bettingState.roundContributionByPlayerId :
       /\ hs.bettingState.roundContributionByPlayerId[p] > 0
       /\ hs.bettingState.roundContributionByPlayerId[p] < hs.handContributionByPlayerId[p]
  /\ \E i \in DOMAIN hs.players :
       hs.players[i].stack = 0 /\ hs.handContributionByPlayerId[hs.players[i].id] > 0

\* C29: whenever a flop, turn or river betting round starts, the active
\* player is the first seat after the dealer, in seat order and wrapping,
\* that is in the hand, has not folded and has chips.
C29_PostflopFirstActor ==
  [][(hs'.phase \in {"flop", "turn", "river"} /\ hs'.phase # hs.phase /\ hs'.bettingState # Null) =>
       LET n == Len(hs'.players)
           order == SelectSeq([j \in 1..n |-> ((hs'.dealerSeatIndex + j) % n) + 1],
                              LAMBDA i : /\ hs'.players[i].inHand
                                         /\ ~hs'.players[i].folded
                                         /\ hs'.players[i].stack > 0)
       IN /\ order # <<>>
          /\ hs'.bettingState.activePlayerId = hs'.players[order[1]].id
    ]_vars

\* C30: in every state preflop has no board card, the flop 3, the turn 4 and
\* the river 5, and no state has phase hand_start; preflop is entered only
\* from lobby or hand_end, the flop only from preflop, the turn only from the
\* flop and the river only from the turn; and a step leaves preflop, flop or
\* turn for the next street exactly when its action closes the betting round
\* with two or more seats not folded.
C30_PhaseAndBoard ==
  [][LET Street == [preflop |-> 0, flop |-> 3, turn |-> 4, river |-> 5]
         Before == [flop |-> "preflop", turn |-> "flop", river |-> "turn"]
         agree(s) == /\ s.phase # "hand_start"
                     /\ s.phase \in DOMAIN Street => Len(s.board) = Street[s.phase]
         \* an accepted action of this step closes the round with two seats left
         closing ==
           \E playerId \in PlayerInputs(hs), action \in ActionInputs :
              /\ action.type # "START_HAND"
              /\ \E res \in {applyAction(hs, playerId, action)} : res.ok /\ res.state = hs'
              /\ \E b \in {IF action.type = "ADVANCE_PHASE" THEN hs.bettingState
                            ELSE applyBettingAction(hs.bettingState, playerId,
                                                    toBettingAction(action)).state} :
                   b.roundClosed /\ Len(activeNonFoldedPlayers(b)) >= 2
     IN /\ agree(hs) /\ agree(hs')
        /\ hs'.phase # hs.phase =>
             /\ hs'.phase = "preflop" => hs.phase \in {"lobby", "hand_end"}
             /\ hs'.phase \in DOMAIN Before => hs.phase = Before[hs'.phase]
        /\ hs.phase \in {"preflop", "flop", "turn"} =>
             (closing <=> (hs'.phase \in DOMAIN Before /\ hs.phase = Before[hs'.phase]))
    ]_vars

\* C31: ADVANCE_PHASE is accepted only in phase showdown, where it moves the
\* hand to hand_end, or when there is a betting round and it is closed; in
\* lobby, in hand_end and while a betting round is open it is refused and the
\* state returned is the state passed.
C31_AdvancePhaseGating ==
  \A playerId \in Range(PlayerIds(hs.players)) :
     \E result \in {applyAction(hs, playerId, [type |-> "ADVANCE_PHASE", amount |-> 0])} :
        /\ result.ok => \/ hs.phase = "showdown"
                        \/ hs.bettingState # Null /\ isRoundClosed(hs.bettingState)
        /\ (result.ok /\ hs.phase = "showdown") =>
             result.state = [hs EXCEPT !.phase = "hand_end", !.actionLog = @ + 1]
        /\ (\/ hs.phase \in {"lobby", "hand_end"}
            \/ hs.bettingState # Null /\ ~isRoundClosed(hs.bettingState)) =>
             ~result.ok /\ ~result.threw /\ result.state = hs

\* C31 happens: on the turn, with the betting round open, an action has just
\* been refused and ADVANCE_PHASE is refused.
C31_Witness ==
  /\ last = "error"
  /\ hs.phase = "turn"
  /\ hs.bettingState # Null /\ ~isRoundClosed(hs.bettingState)
  /\ ~applyAction(hs, "p1", [type |-> "ADVANCE_PHASE", amount |-> 0]).ok

\* C32: for the active seat, with stack s and round contribution c, all_in
\* returns what bet s returns when currentBet is 0, what call returns when
\* c + s <= currentBet, and what raise to c + s returns otherwise: the same
\* state or the same error.
C32_AllInIsSugar ==
  bs.activePlayerId # NoPlayer =>
    \E p \in {bs.activePlayerId} :
      \E s \in {bs.stackByPlayerId[p]}, c \in {bs.roundContributionByPlayerId[p]} :
         applyBettingAction(bs, p, [type |-> "all_in", amount |-> 0])
           = applyBettingAction(bs, p,
               IF bs.currentBet = 0 THEN [type |-> "bet", amount |-> s]
               ELSE IF c + s <= bs.currentBet THEN [type |-> "call", amount |-> 0]
               ELSE [type |-> "raise", amount |-> c + s])

\* C32 happens: a seat has gone all-in over a bet, and the active seat's
\* all_in would be a raise that is accepted.
C32_Witness ==
  /\ last = "ok"
  /\ bs.activePlayerId # NoPlayer
  /\ \E q \in Range(bs.seatOrder) :
       bs.allInByPlayerId[q] /\ bs.roundContributionByPlayerId[q] = bs.currentBet
                             /\ bs.currentBet > BigBlind
  /\ bs.roundContributionByPlayerId[bs.activePlayerId] + bs.stackByPlayerId[bs.activePlayerId]
       > bs.currentBet
  /\ applyBettingAction(bs, bs.activePlayerId, [type |-> "all_in", amount |-> 0]).ok

\* C33: the call of the active seat is accepted exactly when callAmount > 0;
\* it moves min(stack, callAmount) from the stack to the round and total
\* contribution of the seat and changes no other seat, no fold flag,
\* currentBet or minRaiseIncrement; the seat is all-in exactly when its stack
\* reached 0; after a short call (stack < callAmount) the seat is all-in, is
\* not the active seat, and the round is closed exactly when no other seat
\* that can act is below currentBet or has yet to act. A refused call
\* returns the state it was given.
C33_CallSemantics ==
  bs.activePlayerId # NoPlayer =>
    \E p \in {bs.activePlayerId} :
      \E result \in {applyBettingAction(bs, p, [type |-> "call", amount |-> 0])},
         stack \in {bs.stackByPlayerId[p]},
         callAmount \in {Max(0, bs.currentBet - bs.roundContributionByPlayerId[p])} :
        \E paid \in {Min(stack, callAmount)}, next \in {result.state} :
          /\ result.ok <=> callAmount > 0
          /\ ~result.ok => next = bs
          /\ result.ok =>
               /\ next.stackByPlayerId = [bs.stackByPlayerId EXCEPT ![p] = @ - paid]
               /\ next.roundContributionByPlayerId
                    = [bs.roundContributionByPlayerId EXCEPT ![p] = @ + paid]
               /\ next.totalContributionByPlayerId
                    = [bs.totalContributionByPlayerId EXCEPT ![p] = @ + paid]
               /\ next.allInByPlayerId = [bs.allInByPlayerId EXCEPT ![p] = (stack = paid)]
               /\ next.foldedByPlayerId = bs.foldedByPlayerId
               /\ next.currentBet = bs.currentBet
               /\ next.minRaiseIncrement = bs.minRaiseIncrement
               /\ stack < callAmount =>
                    /\ next.allInByPlayerId[p]
                    /\ next.roundContributionByPlayerId[p] < next.currentBet
                    /\ next.activePlayerId # p
                    /\ next.roundClosed <=>
                         ~\E q \in Range(next.seatOrder) \ {p} :
                            /\ ~next.foldedByPlayerId[q] /\ ~next.allInByPlayerId[q]
                            /\ next.stackByPlayerId[q] > 0
                            /\ \/ next.roundContributionByPlayerId[q] < next.currentBet
                               \/ ~next.hasActedByPlayerId[q]

\* C33 happens: in a round that opened without a bet, a seat of stack 3 has
\* called a bet of 5 short, is all-in below currentBet, and the round closed.
C33_Witness ==
  /\ last = "ok"
  /\ bs.phase # "preflop"
  /\ bs.roundClosed
  /\ bs.currentBet = 5 /\ bs.minRaiseIncrement = 5
  /\ \E p \in Range(bs.seatOrder) :
       /\ bs.allInByPlayerId[p] /\ ~bs.foldedByPlayerId[p]
       /\ bs.roundContributionByPlayerId[p] = 3
       /\ bs.hasActedByPlayerId[p]

\* C34: a betting round with two or more seats not folded is closed exactly
\* when no seat that can still act (not folded, not all-in, with chips) has a
\* round contribution below currentBet or has not acted since the last full
\* bet or raise; and when it is closed all seats that can still act have the
\* same round contribution.
C34_RoundClosure ==
  LET canAct == {q \in Range(bs.seatOrder) :
                   /\ ~bs.foldedByPlayerId[q] /\ ~bs.allInByPlayerId[q]
                   /\ bs.stackByPlayerId[q] > 0}
  IN Len(activeNonFoldedPlayers(bs)) >= 2 =>
       /\ bs.roundClosed <=>
            \A q \in canAct : bs.roundContributionByPlayerId[q] >= bs.currentBet /\ q \in acted
       /\ bs.roundClosed =>
            \A q, r \in canAct :
               bs.roundContributionByPlayerId[q] = bs.roundContributionByPlayerId[r]

\* C34 happens: preflop, every other seat has called the big blind, all
\* contributions are equal, and the round is open for the big blind to act.
C34_Witness ==
  /\ last = "ok"
  /\ bs.phase = "preflop"
  /\ Len(bs.seatOrder) = 3
  /\ ~bs.roundClosed
  /\ bs.currentBet = BigBlind
  /\ \A q \in Range(bs.seatOrder) :
       bs.roundContributionByPlayerId[q] = BigBlind /\ bs.stackByPlayerId[q] > 0
  /\ Cardinality(acted) = 2
  /\ bs.activePlayerId \notin acted

\* C36: every pot with a positive amount has at least one eligible player,
\* and every eligible player is a seat in the hand that has not folded.
C36_NoForfeitedPot ==
  \A k \in DOMAIN hs.pots :
     hs.pots[k].amount > 0 =>
       /\ hs.pots[k].eligiblePlayerIds # <<>>
       /\ \A id \in Range(hs.pots[k].eligiblePlayerIds) :
            \E i \in DOMAIN hs.players :
               hs.players[i].id = id /\ hs.players[i].inHand /\ ~hs.players[i].folded

\* The betting round under fair submission: an action that is accepted is
\* eventually submitted as long as one exists.
SpecBettingFair == SpecBetting /\ WF_vars(NextBetting /\ last' = "ok")

\* C37: a betting round ends after finitely many accepted actions. An
\* accepted action is the active seat's, and that seat had yet to act; an
\* accepted bet or raise strictly increases currentBet, which never
\* decreases and never exceeds what some seat can put into the round; an
\* action that leaves currentBet as it is leaves its seat with nothing to do
\* and gives no other seat a new turn; and every round is eventually closed.
C37_RoundsTerminate ==
  /\ [][LET needs(s, q) == /\ ~s.foldedByPlayerId[q] /\ ~s.allInByPlayerId[q]
                          /\ s.stackByPlayerId[q] > 0
                          /\ \/ s.roundContributionByPlayerId[q] < s.currentBet
                             \/ ~s.hasActedByPlayerId[q]
           reach(s) == {s.roundContributionByPlayerId[q] + s.stackByPlayerId[q] :
                          q \in Range(s.seatOrder)}
       IN bs' # bs =>
            /\ bs.activePlayerId # NoPlayer
            /\ needs(bs, bs.activePlayerId)
            /\ \A action \in BettingInputs :
                 (action.type \in {"bet", "raise"}
                    /\ applyBettingAction(bs, bs.activePlayerId, action).ok) =>
                   applyBettingAction(bs, bs.activePlayerId, action).state.currentBet
                     > bs.currentBet
            /\ bs'.currentBet >= bs.currentBet
            /\ \E top \in reach(bs') : bs'.currentBet <= top
            /\ reach(bs') = reach(bs)
            /\ bs'.currentBet = bs.currentBet =>
                 /\ ~needs(bs', bs.activePlayerId)
                 /\ \A q \in Range(bs.seatOrder) : needs(bs', q) => needs(bs, q)
       ]_vars
  /\ <>(bs.roundClosed)

\* C37 happens: a round of three seats has closed after a bet, a raise and
\* the calls that followed.
C37_Witness ==
  /\ last = "ok"
  /\ bs.roundClosed
  /\ Len(bs.seatOrder) = 3
  /\ bs.phase # "preflop"
  /\ bs.currentBet > bs.minRaiseIncrement
  /\ \A q \in Range(bs.seatOrder) :
       ~bs.foldedByPlayerId[q] /\ bs.roundContributionByPlayerId[q] = bs.currentBet

\* C38: with an open betting round the active player is seated and its fold
\* is accepted; with a closed betting round, or in phase showdown,
\* ADVANCE_PHASE is accepted; in lobby or hand_end with two or more seats
\* with chips START_HAND is accepted; and every started hand reaches
\* hand_end when accepted actions keep being submitted: in every state of a
\* hand before hand_end some action is accepted, and every accepted action
\* adds to the action log, so that no state of the hand comes back.
C38_NoStuckHand ==
  /\ [](/\ (hs.bettingState # Null /\ ~isRoundClosed(hs.bettingState)) =>
             /\ hs.bettingState.activePlayerId \in Range(PlayerIds(hs.players))
             /\ applyAction(hs, hs.bettingState.activePlayerId,
                            [type |-> "fold", amount |-> 0]).ok
        /\ (\/ hs.bettingState # Null /\ isRoundClosed(hs.bettingState)
            \/ hs.phase = "showdown") =>
             \A p \in Range(PlayerIds(hs.players)) :
                applyAction(hs, p, [type |-> "ADVANCE_PHASE", amount |-> 0]).ok
        /\ (hs.phase \in {"lobby", "hand_end"} /\ Cardinality(SeatsWithChips(hs)) >= 2) =>
             \A p \in Range(PlayerIds(hs.players)) : applyAction(hs, p, StartHandAction).ok
        /\ hs.phase \notin {"lobby", "hand_end"} =>
             \E p \in Range(PlayerIds(hs.players)), action \in ActionInputs :
                applyAction(hs, p, action).ok)
  /\ [][last' = "ok" => hs'.actionLog > hs.actionLog]_vars

\* C39: in every state of a hand dealt from a full deck (a shuffled deck, or
\* the first hand of a preset deck) the hole cards, the board and the
\* remaining deck hold 52 cards between them and every one of the 52 cards,
\* so no card is in two places; within a hand the hole cards stay, and the
\* board only grows by the cards at the front of the deck, in deck order,
\* three onto an empty board and one at a time after that.
C39_CardConservation ==
  [][LET fullDeck(s) == s.handNumber >= 1 /\ (~s.usePresetDeck \/ s.handNumber = 1)
         ids == Range(PlayerIds(hs'.players))
         held == UNION {Range(hs'.holeCardsByPlayerId[id]) : id \in ids}
         count == SumSeq([i \in DOMAIN hs'.players |->
                            Len(hs'.holeCardsByPlayerId[hs'.players[i].id])])
         taken == Len(hs'.board) - Len(hs.board)
     IN /\ fullDeck(hs') =>
             /\ count + Len(hs'.board) + Len(hs'.deck) = 52
             /\ held \cup Range(hs'.board) \cup Range(hs'.deck) = Range(buildDeck)
        /\ (fullDeck(hs) /\ hs'.handNumber = hs.handNumber) =>
             /\ hs'.holeCardsByPlayerId = hs.holeCardsByPlayerId
             /\ taken >= 0
             /\ hs'.board = hs.board \o SubSeq(hs.deck, 1, taken)
             /\ hs'.deck = SubSeq(hs.deck, taken + 1, Len(hs.deck))
             /\ taken > 0 => taken = IF hs.board = <<>> THEN 3 ELSE 1
    ]_vars

\* C39 happens: three seats of a shuffled hand hold two cards each, the
\* river is on the board and 41 cards are left in the deck.
C39_Witness ==
  /\ ~hs.usePresetDeck
  /\ hs.phase = "river"
  /\ Len(hs.players) = 3
  /\ \A i \in DOMAIN hs.players : Len(hs.holeCardsByPlayerId[hs.players[i].id]) = 2
  /\ Len(hs.board) = 5
  /\ Len(hs.deck) = 41

\* C40: for every seat p (and an id that is not seated) with
\* A = getAvailableActions(state, p): if p is not the active seat every can*
\* flag is false; otherwise canFold holds and fold is accepted, canCheck
\* holds exactly when check is accepted, canCall exactly when call is
\* accepted, canBet implies that a bet of A.minBet is accepted, canRaise that
\* a raise to A.minRaiseTo is accepted, and canAllIn that all_in is accepted.
C40_LegalActionsSound ==
  \A p \in Range(bs.seatOrder) \cup {"px"} :
     \E A \in {getAvailableActions(bs, p)} :
        IF p # bs.activePlayerId
        THEN ~A.canFold /\ ~A.canCheck /\ ~A.canCall /\ ~A.canBet /\ ~A.canRaise /\ ~A.canAllIn
        ELSE /\ A.canFold
             /\ applyBettingAction(bs, p, [type |-> "fold", amount |-> 0]).ok
             /\ A.canCheck <=> applyBettingAction(bs, p, [type |-> "check", amount |-> 0]).ok
             /\ A.canCall <=> applyBettingAction(bs, p, [type |-> "call", amount |-> 0]).ok
             /\ A.canBet => applyBettingAction(bs, p, [type |-> "bet", amount |-> A.minBet]).ok
             /\ A.canRaise =>
                  applyBettingAction(bs, p, [type |-> "raise", amount |-> A.minRaiseTo]).ok
             /\ A.canAllIn => applyBettingAction(bs, p, [type |-> "all_in", amount |-> 0]).ok

\* C40 happens: after a raise the active seat may fold, call, raise again or
\* go all-in, and may neither check nor bet; another seat may do nothing.
C40_Witness ==
  /\ last = "ok"
  /\ bs.activePlayerId # NoPlayer
  /\ bs.currentBet > BigBlind
  /\ \E A \in {getAvailableActions(bs, bs.activePlayerId)} :
       A.canFold /\ A.canCall /\ A.canRaise /\ A.canAllIn /\ ~A.canCheck /\ ~A.canBet
  /\ \E q \in Range(bs.seatOrder) \ {bs.activePlayerId} :
       ~bs.foldedByPlayerId[q] /\ ~getAvailableActions(bs, q).canFold

\* ---------------------------------------------- specification of the mediator

Sockets == {"s1", "s2", "s3"}
\* The table POST /api/tables created, and an id no table has.
TableIds == {"t1", "tx"}
\* The table:join requests clients send: s1 joins as either player (and may
\* join again as the other one), s2 as p2; s3 only watches.
JoinRequests == {<<"s1", "p1">>, <<"s1", "p2">>, <<"s2", "p2">>}
WatchRequests == {"s3"}
\* Handlers one socket may have suspended at `await socket.join` at a time.
MaxPending == 2

\* options of game:start: a table of two chips a seat.
StartOptions ==
  {[seed |-> 7, initialStack |-> 2, smallBlind |-> SmallBlind, bigBlind |-> BigBlind]}

\* The actions clients send with game:action.
MediatorActions ==
  {[type |-> t, amount |-> 0] : t \in {"fold", "call", "ADVANCE_PHASE"}}

\* Every field of options is kept when it is a positive integer (a seed: any
\* integer).
sanitizeHoldemOptions(options) ==
  [k \in {f \in DOMAIN options : f = "seed" \/ options[f] > 0} |-> options[k]]

\* io.to(`table:${tableId}`).emit(event, view): one delivery per member of the room
toRoom(event, view, members, status) ==
  {[to |-> s, event |-> event, view |-> view] :
     s \in {m \in members : status[m] = "connected"}}

\* io.to(socketId).emit(event, view)
toSocket(socketId, event, view, status) ==
  IF status[socketId] = "connected"
  THEN {[to |-> socketId, event |-> event, view |-> view]} ELSE {}

\* emitGameViews, with every player view sent to the table room
emitGameViewsPlayerViewsToRoom(state, joinedBySocket, members, status) ==
  IF state = Null THEN {}
  ELSE toRoom("game:publicView", getPublicView(state), members, status)
       \cup UNION {toRoom("game:playerView",
                          getPlayerView(state, joinedBySocket[s].playerId), members, status) :
                     s \in {x \in DOMAIN joinedBySocket : joinedBySocket[x].tableId = "t1"}}

emitGameViews(state, joinedBySocket, members, status) ==
  IF state = Null THEN {}
  ELSE toRoom("game:publicView", getPublicView(state), members, status)
       \cup UNION {toSocket(s, "game:playerView",
                            getPlayerView(state, joinedBySocket[s].playerId), status) :
                     s \in {x \in DOMAIN joinedBySocket : joinedBySocket[x].tableId = "t1"}}

emitGameViewsToSocket(state, socketId, playerId, status) ==
  IF state = Null THEN {}
  ELSE toSocket(socketId, "game:publicView", getPublicView(state), status)
       \cup toSocket(socketId, "game:playerView", getPlayerView(state, playerId), status)

\* Set.prototype.add / delete on table.players
addPlayer(players, playerId) ==
  IF playerId \in Range(players) THEN players ELSE Append(players, playerId)
deletePlayer(players, playerId) == Filter(players, LAMBDA p : p # playerId)

InitMediator ==
  /\ tables = <<>>
  /\ socketPlayers = <<>>
  /\ rooms = {}
  /\ gameStates = Null
  /\ connected = [s \in Sockets |-> "connected"]
  /\ pending = [s \in Sockets |-> <<>>]
  /\ outbox = {}
  /\ registered = {}
  /\ last = "none"
  /\ NoTable /\ NoRound /\ NoCall

\* POST /api/tables
CreateTable ==
  /\ "t1" \notin DOMAIN tables
  /\ tables' = ("t1" :> <<>>)
  /\ outbox' = {}
  /\ UNCHANGED <<socketPlayers, rooms, gameStates, connected, pending, registered>>

\* A handler that answered with an error and changed nothing.
Refused ==
  /\ outbox' = {}
  /\ UNCHANGED <<tables, socketPlayers, rooms, gameStates, connected, pending, registered>>

\* socket.on('table:join'), to the point where joinTable awaits socket.join
TableJoin(s, tableId, playerId) ==
  /\ connected[s] = "connected"
  /\ Len(pending[s]) < MaxPending
  /\ IF tableId \notin DOMAIN tables THEN Refused
     ELSE /\ tables' = [tables EXCEPT ![tableId] = addPlayer(@, playerId)]
          /\ socketPlayers' = (s :> [tableId |-> tableId, playerId |-> playerId]) @@ socketPlayers
          /\ registered' = registered \cup {<<s, playerId>>}
          /\ pending' = [pending EXCEPT ![s] = Append(@, [event |-> "table:join",
                                                           playerId |-> playerId])]
          /\ outbox' = {}
                  /\ UNCHANGED <<rooms, gameStates, connected>>

\* socket.on('table:watch'), to the point where it awaits socket.join
TableWatch(s, tableId) ==
  /\ connected[s] = "connected"
  /\ Len(pending[s]) < MaxPending
  /\ IF tableId \notin DOMAIN tables THEN Refused
     ELSE /\ pending' = [pending EXCEPT ![s] = Append(@, [event |-> "table:watch",
                                                           playerId |-> NoPlayer])]
          /\ outbox' = {}
                  /\ UNCHANGED <<tables, socketPlayers, rooms, gameStates, connected, registered>>

\* Mutant of Resume: the rest of the handler sends no snapshot.
ResumeWithoutSnapshot(s) ==
  /\ pending[s] # <<>>
  /\ pending' = [pending EXCEPT ![s] = Tail(@)]
  /\ rooms' = IF connected[s] = "connected" THEN rooms \cup {s} ELSE rooms
  /\ outbox' = {}
  /\ UNCHANGED <<tables, socketPlayers, gameStates, connected, registered>>

\* The promise of socket.join resolved: the rest of joinTable or of table:watch runs.
Resume(s) ==
  /\ pending[s] # <<>>
  /\ pending' = [pending EXCEPT ![s] = Tail(@)]
  /\ rooms' = IF connected[s] = "connected" THEN rooms \cup {s} ELSE rooms
  /\ outbox' = IF Head(pending[s]).event = "table:join"
               THEN emitGameViewsToSocket(gameStates, s, Head(pending[s]).playerId, connected)
               ELSE IF gameStates = Null THEN {}
               ELSE toSocket(s, "game:publicView", getPublicView(gameStates), connected)
  /\ UNCHANGED <<tables, socketPlayers, gameStates, connected, registered>>

\* The checks game:start, game:action and game:state share.
joinedAt(s, tableId) == s \in DOMAIN socketPlayers /\ socketPlayers[s].tableId = tableId

\* socket.on('game:start')
GameStart(s, tableId, options) ==
  /\ connected[s] = "connected"
  /\ IF ~joinedAt(s, tableId) \/ tableId \notin DOMAIN tables \/ Len(tables[tableId]) < 2 THEN Refused
     ELSE \E started \in {applyAction(createInitialState(tables[tableId],
                                                         sanitizeHoldemOptions(options)),
                                      socketPlayers[s].playerId,
                                      [type |-> "START_HAND", amount |-> 0])} :
            IF ~started.ok THEN Refused
            ELSE /\ gameStates' = started.state
                 /\ outbox' = emitGameViews(started.state, socketPlayers, rooms, connected)
                                /\ UNCHANGED <<tables, socketPlayers, rooms, connected, pending,
                                registered>>

\* Mutant of GameAction: a socket that has not joined acts as the first seat.
GameActionWithoutJoin(s, tableId, action) ==
  /\ connected[s] = "connected"
  /\ IF gameStates = Null THEN Refused
     ELSE \E applied \in {applyAction(gameStates,
                                      IF joinedAt(s, tableId) THEN socketPlayers[s].playerId
                                      ELSE gameStates.players[1].id, action)} :
            IF ~applied.ok THEN Refused
            ELSE /\ gameStates' = applied.state
                 /\ outbox' = emitGameViews(applied.state, socketPlayers, rooms, connected)
                 /\ UNCHANGED <<tables, socketPlayers, rooms, connected, pending,
                                registered>>

\* Mutant of GameAction: the views are emitted before the new state is stored.
GameActionEmitsBeforeCommit(s, tableId, action) ==
  /\ connected[s] = "connected"
  /\ IF ~joinedAt(s, tableId) \/ gameStates = Null THEN Refused
     ELSE \E applied \in {applyAction(gameStates, socketPlayers[s].playerId, action)} :
            IF ~applied.ok THEN Refused
            ELSE /\ gameStates' = applied.state
                 /\ outbox' = emitGameViews(gameStates, socketPlayers, rooms, connected)
                 /\ UNCHANGED <<tables, socketPlayers, rooms, connected, pending,
                                registered>>

\* socket.on('game:action'); an exception of applyAction ends the handler
GameAction(s, tableId, action) ==
  /\ connected[s] = "connected"
  /\ IF ~joinedAt(s, tableId) \/ gameStates = Null THEN Refused
     ELSE \E applied \in {applyAction(gameStates, socketPlayers[s].playerId, action)} :
            IF ~applied.ok THEN Refused
            ELSE /\ gameStates' = applied.state
                 /\ outbox' = emitGameViews(applied.state, socketPlayers, rooms, connected)
                                /\ UNCHANGED <<tables, socketPlayers, rooms, connected, pending,
                                registered>>

\* Mutant of GameState: the views are sent as a publication to the table.
GameStateBroadcasts(s, tableId) ==
  /\ connected[s] = "connected"
  /\ IF ~joinedAt(s, tableId) \/ gameStates = Null THEN Refused /\ last' = "none"
     ELSE /\ outbox' = emitGameViews(gameStates, socketPlayers, rooms, connected)
          /\ last' = "game:state"
          /\ UNCHANGED <<tables, socketPlayers, rooms, gameStates, connected, pending,
                         registered>>

\* socket.on('game:state'); `last` records that the request was answered
GameState(s, tableId) ==
  /\ connected[s] = "connected"
  /\ IF ~joinedAt(s, tableId) \/ gameStates = Null THEN Refused /\ last' = "none"
     ELSE /\ outbox' = emitGameViewsToSocket(gameStates, s, socketPlayers[s].playerId, connected)
          /\ last' = "game:state"
          /\ UNCHANGED <<tables, socketPlayers, rooms, gameStates, connected, pending,
                         registered>>

\* socket.on('disconnect'); the socket has left every room
Disconnect(s) ==
  /\ connected[s] = "connected"
  /\ connected' = [connected EXCEPT ![s] = "closed"]
  /\ rooms' = rooms \ {s}
  /\ tables' = IF s \in DOMAIN socketPlayers /\ socketPlayers[s].tableId \in DOMAIN tables
               THEN [tables EXCEPT ![socketPlayers[s].tableId] =
                       deletePlayer(@, socketPlayers[s].playerId)]
               ELSE tables
  /\ socketPlayers' = [x \in DOMAIN socketPlayers \ {s} |-> socketPlayers[x]]
  /\ outbox' = {}
  /\ UNCHANGED <<gameStates, pending, registered>>

NextMediator ==
  /\ \/ /\ \/ CreateTable
           \/ \E request \in JoinRequests, tableId \in TableIds :
                TableJoin(request[1], tableId, request[2])
           \/ \E s \in WatchRequests, tableId \in TableIds : TableWatch(s, tableId)
           \/ \E s \in Sockets : Resume(s)
           \/ \E s \in Sockets, tableId \in TableIds, options \in StartOptions :
                GameStart(s, tableId, options)
           \/ \E s \in Sockets, tableId \in TableIds, action \in MediatorActions :
                GameAction(s, tableId, action)
           \/ \E s \in Sockets : Disconnect(s)
        /\ last' = "none"
     \/ \E s \in Sockets, tableId \in TableIds : GameState(s, tableId)
  /\ UNCHANGED <<holdemVars, bettingVars, callVars>>

SpecMediator == InitMediator /\ [][NextMediator]_vars


\* ------------------------------------------------------------------ claim C3

\* The sockets that never sent table:join: they watch at most.
WatchOnly == {s \in Sockets : \A request \in registered : request[1] # s}

\* C3: fan-out privacy in the mediator. After any sequence of table:join,
\* table:watch, game:start, game:action and game:state events (and
\* disconnects, and whatever the order in which suspended joins resume), a
\* message that carries hole cards, the player view of p, is delivered only to
\* a socket that registered through table:join as p; every other delivery,
\* those to the members of the table room and to sockets that only watch among
\* them, is the public view of the state, which has no hole cards and no deck.
C3_FanOutPrivacy ==
  \A d \in outbox :
    /\ "holeCards" \in DOMAIN d.view =>
         /\ d.event = "game:playerView"
         /\ <<d.to, d.view.playerId>> \in registered
         /\ d.view.holeCards = Get(gameStates.holeCardsByPlayerId, d.view.playerId, <<>>)
    /\ d.event = "game:publicView" =>
         /\ d.view = getPublicView(gameStates)
         /\ DOMAIN d.view \cap {"holeCards", "holeCardsByPlayerId", "deck"} = {}
    /\ d.to \in WatchOnly => d.event = "game:publicView"

\* A hand is on: a seated socket receives its two hole cards while a socket
\* that only watches receives, from the same emission to the room, the public view.
C3_Witness ==
  /\ \E d \in outbox : d.event = "game:playerView" /\ Len(d.view.holeCards) = 2
  /\ \E w \in WatchOnly \cap rooms :
       \E d \in outbox : d.to = w /\ d.event = "game:publicView"
  /\ \E s \in rooms \ WatchOnly :
       \E d \in outbox : d.to = s /\ d.event = "game:publicView"

\* ------------------------------------------- specification of buildSidePots

\* Largest contribution of a seat handed to buildSidePots.
MaxContribution == 4

\* The seat orders handed to buildSidePots: two and three seats, and a rotation.
PotSeatOrders == {<<"p1", "p2">>, <<"p1", "p2", "p3">>, <<"p3", "p1", "p2">>}

\* buildSidePots(totalContributionByPlayerId, foldedByPlayerId, seatOrder)
PotInputs ==
  UNION {{[totalContributionByPlayerId |-> c, foldedByPlayerId |-> f, seatOrder |-> o] :
            c \in [Range(o) -> 0..MaxContribution], f \in [Range(o) -> BOOLEAN]} :
         o \in PotSeatOrders}

InitPots ==
  /\ arg \in PotInputs
  /\ out = Null
  /\ last = "none"
  /\ NoTable /\ NoRound /\ NoMediator

CallBuildPots ==
  /\ arg \in PotInputs
  /\ last = "none"
  /\ out' = buildPots(arg.totalContributionByPlayerId, arg.foldedByPlayerId, arg.seatOrder)
  /\ last' = "ok"
  /\ UNCHANGED <<arg, holdemVars, bettingVars, mediatorVars>>

NextPots == CallBuildPots

SpecPots == InitPots /\ [][NextPots]_vars

\* ------------------------------------------------- C13 side-pot construction

\* The distinct positive contribution levels, and the k-th of them from below
\* (0 for k = 0).
Levels(c) == {c[p] : p \in DOMAIN c} \ {0}
LevelAt(c, k) ==
  IF k = 0 THEN 0
  ELSE CHOOSE l \in Levels(c) : Cardinality({m \in Levels(c) : m < l}) = k - 1

\* C13: buildSidePots emits one pot per distinct positive contribution level,
\* lowest level first; the amount of a pot is the height of its layer times the
\* number of seats whose contribution reaches the level; its eligible list is
\* those of these seats that have not folded, in seat order; and the amounts
\* add up to the sum of all contributions, folded seats' chips included.
C13_SidePots ==
  last = "ok" =>
    \E c \in {arg.totalContributionByPlayerId} :
      /\ Len(out) = Cardinality(Levels(c))
      /\ \A k \in 1..Len(out) :
           /\ out[k].amount =
                (LevelAt(c, k) - LevelAt(c, k - 1))
                  * Cardinality({p \in DOMAIN c : c[p] >= LevelAt(c, k)})
           /\ out[k].eligiblePlayerIds =
                Filter(arg.seatOrder,
                       LAMBDA p : c[p] >= LevelAt(c, k) /\ ~arg.foldedByPlayerId[p])
      /\ SumSeq([k \in DOMAIN out |-> out[k].amount]) = SumFun(c, DOMAIN c)

\* Three seats at three different levels, the middle one folded: three pots,
\* the folded seat's chips in the first two and the seat eligible for none.
C13_Witness ==
  /\ last = "ok"
  /\ Len(out) = 3
  /\ \E p \in Range(arg.seatOrder) :
       /\ arg.foldedByPlayerId[p]
       /\ arg.totalContributionByPlayerId[p] = LevelAt(arg.totalContributionByPlayerId, 2)
       /\ \A k \in 1..3 : p \notin Range(out[k].eligiblePlayerIds)
  /\ out[2].amount > 0 /\ out[3].eligiblePlayerIds # <<>>


\* ------------------------------------------------------- C25 pot-layer invariant

\* C25: the pot-layer invariant. In every state the pots are the layers of
\* the contributions to the hand: the amount of the k-th pot is the height of
\* the k-th layer times the number of seats that contributed at that layer;
\* and at most one pot has an eligibility list of a single player.
C25_PotLayers ==
  \E c \in {hs.handContributionByPlayerId} :
    /\ hs.pots # <<>> =>
         /\ Len(hs.pots) = Cardinality(Levels(c))
         /\ \A k \in DOMAIN hs.pots :
              hs.pots[k].amount =
                (LevelAt(c, k) - LevelAt(c, k - 1))
                  * Cardinality({p \in DOMAIN c : c[p] >= LevelAt(c, k)})
    /\ Cardinality({k \in DOMAIN hs.pots : Len(hs.pots[k].eligiblePlayerIds) = 1}) <= 1

\* ------------------------------------- C15 serialization and broadcast order

\* The players whose sockets can send game:start and game:action.
Requesters == {socketPlayers[s].playerId :
                 s \in {x \in DOMAIN socketPlayers : connected[x] = "connected"}}

\* `next` is what an accepted game:action of some socket, applied to `state`,
\* or an accepted game:start commits (a hand that has just started is in preflop).
CommittedBy(state, next) ==
  \/ /\ state # Null
     /\ \E playerId \in Requesters, action \in MediatorActions :
          \E applied \in {applyAction(state, playerId, action)} :
             applied.ok /\ applied.state = next
  \/ /\ next.phase = "preflop"
     /\ "t1" \in DOMAIN tables
     /\ Len(tables["t1"]) >= 2
     /\ \E playerId \in Requesters, options \in StartOptions :
          \E started \in {applyAction(createInitialState(tables["t1"],
                                                         sanitizeHoldemOptions(options)),
                                      playerId, [type |-> "START_HAND", amount |-> 0])} :
             started.ok /\ started.state = next

\* The sockets a public view is delivered to by the latest handler.
PublicViewReceivers(box) == {d.to : d \in {x \in box : x.event = "game:publicView"}}

\* C15: whatever the interleaving of requests, joins and disconnects, the
\* state of the table changes only by an accepted game:start or game:action
\* applied to the state the previous accepted request left (no update is lost,
\* none is applied to an older state); the step that commits a state publishes
\* the public view of exactly that state to every member of the room, before
\* any later request is served; and a step that is not a commit sends a public
\* view to one socket at most, never to the room, so the room sees the
\* committed states in the order they were committed.
C15_SerializedBroadcast ==
  [][/\ gameStates' # gameStates =>
          /\ CommittedBy(gameStates, gameStates')
          /\ \A m \in rooms : connected[m] = "connected" =>
                [to |-> m, event |-> "game:publicView",
                 view |-> getPublicView(gameStates')] \in outbox'
     /\ \A d \in outbox' : d.event = "game:publicView" => d.view = getPublicView(gameStates')
     /\ Cardinality(PublicViewReceivers(outbox')) > 1 =>
          CommittedBy(gameStates, gameStates')
    ]_vars

\* A game:action has just been committed on a running game and its public view
\* has reached two members of the room, while a join is still suspended.
C15_Witness ==
  /\ gameStates # Null
  /\ gameStates.phase # "preflop"
  /\ Cardinality(PublicViewReceivers(outbox)) >= 2
  /\ \E s \in Sockets : pending[s] # <<>>


\* ------------------------------------------------ C16 publication iff success

\* The ids of the players seated in a game state.
SeatedPlayers(state) == {state.players[i].id : i \in DOMAIN state.players}

\* The deliveries of the latest handler that carry the player view of p.
PlayerViewsOf(box, state, p) ==
  {d \in box : d.event = "game:playerView" /\ d.view = getPlayerView(state, p)}

\* C16: publication iff success. A step that commits a state (an accepted
\* game:start or game:action) delivers the public view of the committed state
\* to the members of the table room and exactly one player view for each
\* seated player, computed from the committed state, and nothing else; a
\* step that commits nothing (a rejected request among them) leaves the stored
\* state as it was and publishes nothing to the table.
C16_PublicationIffSuccess ==
  [][/\ gameStates' # gameStates =>
          /\ \A m \in rooms : connected[m] = "connected" =>
                [to |-> m, event |-> "game:publicView",
                 view |-> getPublicView(gameStates')] \in outbox'
          /\ \A d \in outbox' :
                \/ d.event = "game:publicView" /\ d.to \in rooms
                                               /\ d.view = getPublicView(gameStates')
                \/ \E p \in SeatedPlayers(gameStates') : d \in PlayerViewsOf(outbox', gameStates', p)
          /\ \A p \in SeatedPlayers(gameStates') :
                Cardinality(PlayerViewsOf(outbox', gameStates', p)) = 1
     /\ (gameStates' = gameStates /\ Cardinality({d.to : d \in outbox'}) > 1) =>
          CommittedBy(gameStates, gameStates')
    ]_vars


\* ------------------------------------------------ C17 fresh-subscriber snapshot

\* The view an event carries when it is computed from `state`.
ViewOf(state, d) ==
  IF d.event = "game:publicView" THEN getPublicView(state)
  ELSE getPlayerView(state, d.view.playerId)

\* C17: fresh-subscriber snapshot. When the join of a connected socket
\* resumes (table:join or table:watch) and the table has a game, the socket is
\* in the room and receives the public view of the state stored at that moment
\* (and, after table:join, the player view of the player it joined as),
\* whatever game:action requests were served while the join was suspended;
\* and every view any handler delivers is computed from the state stored when
\* it is delivered, so no socket receives an older state after a newer one.
C17_FreshSubscriberSnapshot ==
  [][/\ \A s \in Sockets :
          (/\ pending[s] # <<>> /\ pending'[s] = Tail(pending[s])
           /\ connected[s] = "connected" /\ gameStates # Null) =>
             /\ s \in rooms'
             /\ [to |-> s, event |-> "game:publicView",
                 view |-> getPublicView(gameStates')] \in outbox'
             /\ Head(pending[s]).event = "table:join" =>
                  [to |-> s, event |-> "game:playerView",
                   view |-> getPlayerView(gameStates', Head(pending[s]).playerId)] \in outbox'
     /\ \A d \in outbox' : d.view = ViewOf(gameStates', d)
    ]_vars

\* The watch of s3 has just resumed on a table whose game has moved past the
\* start of the hand while the join of s2 is still suspended: s3 receives the
\* public view of the stored state, and nothing else is sent.
C17_Witness ==
  /\ gameStates # Null
  /\ gameStates.phase # "preflop"
  /\ outbox = {[to |-> "s3", event |-> "game:publicView", view |-> getPublicView(gameStates)]}
  /\ "s3" \in rooms
  /\ "s2" \in DOMAIN socketPlayers /\ "s2" \notin rooms /\ pending["s2"] # <<>>


\* ------------------------------------------- specification of evaluateBestHand

\* The hands given to evaluateBestHand: every 5, 6 and 7 cards of a part of
\* the deck (2 3 4 5 6 A of clubs, 2 3 K A of diamonds, the 2 of hearts and of
\* spades), each in descending, in ascending and in a rotated order, and hands
\* of 4 and of 8 cards.
EvalInputs ==
  LET part == {0, 1, 2, 3, 4, 12, 13, 14, 24, 25, 26, 39}
      asc(S) == [i \in 1..Cardinality(S) |-> SetDesc(S)[Cardinality(S) + 1 - i]]
      rot(S) == Tail(SetDesc(S)) \o <<Head(SetDesc(S))>>
  IN UNION {{SetDesc(S), asc(S), rot(S)} :
              S \in {T \in SUBSET part : Cardinality(T) \in 5..7}}
       \cup {<<0, 1, 2, 3>>, <<0, 1, 2, 3, 4, 12, 13, 14>>}

InitEval ==
  /\ arg \in EvalInputs
  /\ out = Null
  /\ last = "none"
  /\ NoTable /\ NoRound /\ NoMediator

\* evaluateBestHand(cards): a score, or the exception for a hand of the wrong size
CallEvaluateBestHand ==
  /\ last = "none"
  /\ IF evaluateBestHandThrows(arg)
     THEN out' = Null /\ last' = "threw"
     ELSE out' = evaluateBestHand(arg) /\ last' = "ok"
  /\ UNCHANGED <<arg, holdemVars, bettingVars, mediatorVars>>

NextEval == CallEvaluateBestHand

SpecEval == InitEval /\ [][NextEval]_vars

\* ----------------------------------------------------------- C21 hand evaluator

\* C21: the hand evaluator. For 5, 6 or 7 distinct cards in any order
\* evaluateBestHand returns the score vector that is lexicographically largest
\* among those of the 5-card subsets, a subset being scored by its category
\* (high card 0 up to straight flush 8) followed by the tie-break ranks of the
\* category, with A-2-3-4-5 the lowest straight (high card 5), and the
\* category named is that of the vector; with fewer than 5 or more than 7
\* cards the call fails.
C21_HandEvaluator ==
  LET value(c) == (c % 13) + 2
      count(S, r) == Cardinality({c \in S : value(c) = r})
      ranks(S, k) == {value(c) : c \in {x \in S : count(S, value(x)) = k}}
      the(R) == CHOOSE r \in R : TRUE
      top(R) == CHOOSE r \in R : \A q \in R : r >= q
      desc(S) == [i \in 1..5 |->
                    CHOOSE r \in {value(c) : c \in S} :
                      /\ Cardinality({c \in S : value(c) > r}) < i
                      /\ Cardinality({c \in S : value(c) >= r}) >= i]
      flush(S) == Cardinality({c \div 13 : c \in S}) = 1
      straight(S) ==
        IF Cardinality(ranks(S, 1)) = 5 /\ top(ranks(S, 1)) - 4 \in ranks(S, 1)
             /\ \A r \in ranks(S, 1) : r >= top(ranks(S, 1)) - 4
        THEN top(ranks(S, 1))
        ELSE IF ranks(S, 1) = {14, 2, 3, 4, 5} THEN 5 ELSE 0
      score(S) ==
        IF flush(S) /\ straight(S) # 0 THEN <<8, straight(S)>>
        ELSE IF ranks(S, 4) # {} THEN <<7, the(ranks(S, 4)), the(ranks(S, 1))>>
        ELSE IF ranks(S, 3) # {} /\ ranks(S, 2) # {}
          THEN <<6, the(ranks(S, 3)), the(ranks(S, 2))>>
        ELSE IF flush(S) THEN <<5>> \o desc(S)
        ELSE IF straight(S) # 0 THEN <<4, straight(S)>>
        ELSE IF ranks(S, 3) # {} THEN <<3, the(ranks(S, 3))>> \o SetDesc(ranks(S, 1))
        ELSE IF Cardinality(ranks(S, 2)) = 2
          THEN <<2, top(ranks(S, 2)), the(ranks(S, 2) \ {top(ranks(S, 2))}),
                 the(ranks(S, 1))>>
        ELSE IF ranks(S, 2) # {} THEN <<1, the(ranks(S, 2))>> \o SetDesc(ranks(S, 1))
        ELSE <<0>> \o desc(S)
      less(a, b) == \E i \in 1..Len(a) : /\ i <= Len(b) /\ a[i] < b[i]
                                        /\ \A j \in 1..(i - 1) : a[j] = b[j]
      names == <<"high_card", "pair", "two_pair", "three_of_a_kind", "straight",
                 "flush", "full_house", "four_of_a_kind", "straight_flush">>
  IN /\ last # "none" => (last = "threw" <=> Len(arg) \notin 5..7)
     /\ last = "ok" =>
          \E scores \in {{score(S) : S \in {T \in SUBSET Range(arg) : Cardinality(T) = 5}}} :
             /\ out.scoreVector \in scores
             /\ \A s \in scores : ~less(out.scoreVector, s)
             /\ out.category = names[out.scoreVector[1] + 1]

\* Seven cards not in sorted order whose best hand is the wheel, a straight
\* to the five with the ace low, though they hold a pair of aces as well.
C21_Witness ==
  /\ last = "ok"
  /\ Len(arg) = 7
  /\ arg[1] < arg[2]
  /\ out.category = "straight"
  /\ out.scoreVector = <<4, 5>>
  /\ {12, 25} \subseteq Range(arg)


\* ------------------------------------------------------------ C26 membership

C27_IdempotentQuery ==
  [][last' = "game:state" =>
       /\ gameStates' = gameStates
       /\ \E s \in DOMAIN socketPlayers :
            outbox' = {[to |-> s, event |-> "game:publicView",
                        view |-> getPublicView(gameStates)],
                       [to |-> s, event |-> "game:playerView",
                        view |-> getPlayerView(gameStates, socketPlayers[s].playerId)]}
       /\ (last = "game:state" /\ {d.to : d \in outbox'} = {d.to : d \in outbox}) =>
            outbox' = outbox
    ]_vars

\* A socket other than the one that acted last asks for the state of a game
\* that has moved on since the start of the hand, while a third socket watches.
C27_Witness ==
  /\ last = "game:state"
  /\ gameStates.phase # "preflop"
  /\ "s3" \in rooms
  /\ \E d \in outbox : d.to = "s2" /\ d.event = "game:playerView"
                       /\ Len(d.view.holeCards) = 2


\* --------------------------------------------------- specification of START_HAND

\* A table between two hands: the seats' stacks, which seats were dealt into
\* the hand before, and the dealer seat of that hand.
StartTable(stacks, flags, dealer) ==
  [createInitialState(Seated(Len(stacks)),
                      [testDeck |-> buildDeck, initialStack |-> InitialStack,
                       smallBlind |-> SmallBlind, bigBlind |-> BigBlind])
     EXCEPT !.phase = "hand_end", !.handNumber = 1, !.dealerSeatIndex = dealer,
            !.players = [i \in DOMAIN @ |->
                           [@[i] EXCEPT !.stack = stacks[i], !.inHand = flags[i],
                                        !.isDealer = (i - 1 = dealer)]]]

\* START_HAND is sent to a new table of two to four seats, or to a table of
\* three or four seats between two hands, every seat with no chips, one, two
\* or InitialStack, any dealer seat of the hand before, and a seat without
\* chips either dealt into that hand or not (a seat with chips was, and so
\* was the dealer).
InitStart ==
  /\ \/ \E n \in 2..4 :
          arg = createInitialState(Seated(n),
                  [seed |-> 7, initialStack |-> InitialStack,
                   smallBlind |-> SmallBlind, bigBlind |-> BigBlind])
     \/ \E n \in 3..4 : \E dealer \in 0..(n - 1) :
          \E stacks \in [1..n -> {0, 1, 2, InitialStack}] : \E flags \in [1..n -> BOOLEAN] :
            /\ flags[dealer + 1]
            /\ \A i \in 1..n : stacks[i] > 0 => flags[i]
            /\ arg = StartTable(stacks, flags, dealer)
  /\ out = Null
  /\ last = "none"
  /\ NoTable /\ NoRound /\ NoMediator

\* applyAction(state, playerId, { type: 'START_HAND' }) sent by the first seat
CallStartHand ==
  /\ last = "none"
  /\ out' = applyAction(arg, arg.players[1].id, StartHandAction)
  /\ last' = IF out'.ok THEN "ok" ELSE "error"
  /\ UNCHANGED <<arg, holdemVars, bettingVars, mediatorVars>>

NextStart == CallStartHand

SpecStart == InitStart /\ [][NextStart]_vars

\* C28: after START_HAND on a table where three or more seats have chips, the
\* small blind is posted by the first seat with chips after the dealer, the
\* big blind by the next such seat and the active player is the next such
\* seat after the big blind; a blind posted is min(configured amount, stack
\* of the poster), nobody else has posted, and a poster left without chips
\* is all-in while one with chips is not.
C28_BlindPositions ==
  (last = "ok" /\ Cardinality({i \in DOMAIN arg.players : arg.players[i].stack > 0}) >= 3) =>
    LET s == out.state
        n == Len(arg.players)
        order == SelectSeq([j \in 1..n |-> ((s.dealerSeatIndex + j) % n) + 1],
                           LAMBDA i : arg.players[i].stack > 0)
        blind(i) == IF i = order[1] THEN Min(s.smallBlind, arg.players[i].stack)
                    ELSE IF i = order[2] THEN Min(s.bigBlind, arg.players[i].stack)
                    ELSE 0
    IN /\ s.phase = "preflop"
       /\ s.bettingState # Null
       /\ s.bettingState.activePlayerId = arg.players[order[3]].id
       /\ \A i \in DOMAIN arg.players :
            /\ s.players[i].stack = arg.players[i].stack - blind(i)
            /\ s.players[i].inHand <=> arg.players[i].stack > 0
            /\ s.players[i].inHand =>
                 /\ s.bettingState.roundContributionByPlayerId[arg.players[i].id] = blind(i)
                 /\ s.handContributionByPlayerId[arg.players[i].id] = blind(i)
                 /\ s.players[i].allIn <=> (s.players[i].stack = 0)

\* C28 happens: four seats, the seat after the new dealer has no chips and
\* is skipped, the small blind empties its poster and the big blind is short
C28_Witness ==
  /\ last = "ok" /\ Len(arg.players) = 4
  /\ out.state.dealerSeatIndex = 2
  /\ arg.players[4].stack = 0
  /\ arg.players[1].stack = 1 /\ out.state.players[1].allIn
  /\ arg.players[2].stack = 1 /\ out.state.players[2].allIn
  /\ out.state.bettingState.activePlayerId = "p3"

\* C35: the dealer of hand 1 is seat 0; a later accepted START_HAND makes the
\* dealer the next seat with chips after the dealer before, in seat order
\* and wrapping; and in the table passed and the table returned exactly the
\* seat at dealerSeatIndex has isDealer.
C35_DealerRotation ==
  LET marked(s) == /\ s.dealerSeatIndex \in 0..(Len(s.players) - 1)
                   /\ \A i \in DOMAIN s.players :
                        s.players[i].isDealer <=> (i - 1 = s.dealerSeatIndex)
      n == Len(arg.players)
      after == SelectSeq([j \in 1..n |-> (arg.dealerSeatIndex + j) % n],
                         LAMBDA seat : arg.players[seat + 1].stack > 0)
  IN /\ marked(arg)
     /\ last # "none" => marked(out.state)
     /\ last = "ok" =>
          /\ out.state.handNumber = arg.handNumber + 1
          /\ out.state.dealerSeatIndex = IF out.state.handNumber = 1 THEN 0 ELSE after[1]

\* C35 happens: at a four-seat table the two seats after the dealer have no
\* chips and the dealer button has moved past them, wrapping to seat 0.
C35_Witness ==
  /\ last = "ok"
  /\ Len(arg.players) = 4
  /\ arg.dealerSeatIndex = 1
  /\ arg.players[3].stack = 0 /\ arg.players[4].stack = 0
  /\ out.state.handNumber = 2
  /\ out.state.dealerSeatIndex = 0 /\ out.state.players[1].isDealer


=============================================================================
